---- MODULE Spec2Model ----
(***************************************************************************)
(* Nova Browser (src/browser.py): the document pipeline.                   *)
(*   raw text -> DocumentParser.parse_document -> NovaDocument             *)
(*            -> Renderer.render_document   (text surface)                 *)
(*            -> Renderer.collect_actions   (ordered action catalog)       *)
(*                                                                         *)
(* Python values are tagged records [t |-> tag, v |-> payload]; a dataclass *)
(* instance is a record of its fields with its class name as tag.          *)
(***************************************************************************)
EXTENDS Integers, Sequences, FiniteSets, TLC

VARIABLES content, result, surface, menu,
          tabs, active_tab_id, request_cache, pc, calls,
          loaded, fetched, executed, gui, storage

\* the state of the runtime and its ghosts
runtime == <<tabs, active_tab_id, request_cache, pc, calls,
             loaded, fetched, executed, storage>>

vars == <<content, result, surface, menu, runtime, gui>>

(***************************************************************************)
(* Bounds of the model.                                                    *)
(***************************************************************************)
\* layout trees of the walk family have at most this many nodes
MaxNodes == 4
\* layout trees of the malformed family have at most this many nodes
MaxRawNodes == 3
\* a measured render time is one of 0..MaxElapsed clock ticks
MaxElapsed == 1

(***************************************************************************)
(* Python / JSON values.                                                   *)
(***************************************************************************)
None == [t |-> "null"]
Str(s) == [t |-> "str", v |-> s]
Bool(b) == [t |-> "bool", v |-> b]
Num(n) == [t |-> "num", v |-> n]
Arr(a) == [t |-> "arr", v |-> a]
Obj(f) == [t |-> "obj", v |-> f]

\* Python truth value testing: `if x:`
Truthy(x) ==
    CASE x.t = "null" -> FALSE
      [] x.t = "bool" -> x.v
      [] x.t = "str" -> x.v # ""
      [] x.t = "num" -> x.v # 0
      [] x.t = "arr" -> Len(x.v) > 0
      [] x.t = "obj" -> DOMAIN x.v # {}
      [] OTHER -> TRUE

\* mutant: `d.get(k) or default`, a falsy value counts as a missing key
get_or(d, k, default) ==
    IF k \in DOMAIN d.v /\ Truthy(d.v[k]) THEN d.v[k] ELSE default

\* dict.get(key, default)
get(d, k, default) == IF k \in DOMAIN d.v THEN d.v[k] ELSE default

\* an exception leaving a function, and a normal return
Raise(cls, m) == [raised |-> TRUE, exc |-> cls, msg |-> m]
Return(x) == [raised |-> FALSE, val |-> x]

(***************************************************************************)
(* Data classes.                                                           *)
(***************************************************************************)
\* Action(action_type=ty): every payload field defaults to None
Action(ty) ==
    [t |-> "Action", action_type |-> ty, key |-> None, value |-> None,
     destination |-> None, input_id |-> None, media_id |-> None,
     command |-> None, form_id |-> None, extension_id |-> None,
     download_url |-> None, bookmark_url |-> None, search_query |-> None,
     theme_name |-> None]

\* PerformanceMetrics as parse_document builds it; the wall-clock load_time
\* and timestamp are written once and read by nothing modelled here
PerformanceMetrics(rt) ==
    [t |-> "PerformanceMetrics", render_time |-> rt, memory_usage |-> 0,
     network_requests |-> 0]

(***************************************************************************)
(* DocumentParser.                                                         *)
(***************************************************************************)
\* the Action(...) built from the "action" object of a node
parse_action(action_data) ==
    [t |-> "Action",
     action_type |-> get(action_data, "type", Str("")),
     key |-> get(action_data, "key", None),
     value |-> get(action_data, "value", None),
     destination |-> get(action_data, "destination", None),
     input_id |-> get(action_data, "input_id", None),
     media_id |-> get(action_data, "media_id", None),
     command |-> get(action_data, "command", None),
     form_id |-> get(action_data, "form_id", None),
     extension_id |-> get(action_data, "extension_id", None),
     download_url |-> get(action_data, "download_url", None),
     bookmark_url |-> get(action_data, "bookmark_url", None),
     search_query |-> get(action_data, "search_query", None),
     theme_name |-> get(action_data, "theme_name", None)]

\* the LayoutNode(...) built from a node object, its action and children
LayoutNode(node_data, action, children) ==
    [t |-> "LayoutNode",
     node_type |-> node_data.v["type"],
     text |-> get(node_data, "text", None),
     level |-> get(node_data, "level", None),
     children |-> children,
     action |-> action,
     destination |-> get(node_data, "destination", None),
     id |-> get(node_data, "id", None),
     placeholder |-> get(node_data, "placeholder", None),
     source |-> get(node_data, "source", None),
     controls |-> get(node_data, "controls", None),
     autoplay |-> get(node_data, "autoplay", None),
     width |-> get(node_data, "width", None),
     height |-> get(node_data, "height", None),
     responsive |-> get(node_data, "responsive", None),
     animation |-> get(node_data, "animation", None),
     style |-> get(node_data, "style", None),
     form_type |-> get(node_data, "form_type", None),
     required |-> get(node_data, "required", None),
     min_length |-> get(node_data, "min_length", None),
     max_length |-> get(node_data, "max_length", None),
     pattern |-> get(node_data, "pattern", None),
     table_data |-> get(node_data, "table_data", None),
     language |-> get(node_data, "language", None),
     aria_label |-> get(node_data, "aria_label", None),
     role |-> get(node_data, "role", None)]

\* the least element of a non-empty set of indices
Least(S) == CHOOSE i \in S : \A j \in S : i <= j

RECURSIVE parse_layout_node(_)

\* mutant: a child that fails to parse is left out of its parent's children
parse_layout_node_lenient(node_data) ==
    IF node_data.t # "obj"
    THEN Raise("ValueError", "Layout node must be an object")
    ELSE IF "type" \notin DOMAIN node_data.v
    THEN Raise("ValueError", "Layout node must have 'type'")
    ELSE IF "action" \in DOMAIN node_data.v /\ node_data.v["action"].t # "obj"
    THEN Raise("ValueError", "Action must be an object")
    ELSE IF "children" \in DOMAIN node_data.v /\ node_data.v["children"].t # "arr"
    THEN Raise("ValueError", "Children must be an array")
    ELSE
      LET action == IF "action" \in DOMAIN node_data.v
                    THEN parse_action(node_data.v["action"])
                    ELSE None
          raw == IF "children" \in DOMAIN node_data.v
                 THEN node_data.v["children"].v
                 ELSE <<>>
          kids == [i \in 1..Len(raw) |-> parse_layout_node(raw[i])]
          Good(r) == ~r.raised
          kept == SelectSeq(kids, Good)
          children == IF "children" \in DOMAIN node_data.v
                      THEN Arr([i \in 1..Len(kept) |-> kept[i].val])
                      ELSE None
      IN  Return(LayoutNode(node_data, action, children))

parse_layout_node(node_data) ==
    IF node_data.t # "obj"
    THEN Raise("ValueError", "Layout node must be an object")
    ELSE IF "type" \notin DOMAIN node_data.v
    THEN Raise("ValueError", "Layout node must have 'type'")
    ELSE IF "action" \in DOMAIN node_data.v /\ node_data.v["action"].t # "obj"
    THEN Raise("ValueError", "Action must be an object")
    ELSE IF "children" \in DOMAIN node_data.v /\ node_data.v["children"].t # "arr"
    THEN Raise("ValueError", "Children must be an array")
    ELSE
      LET action == IF "action" \in DOMAIN node_data.v
                    THEN parse_action(node_data.v["action"])
                    ELSE None
          raw == IF "children" \in DOMAIN node_data.v
                 THEN node_data.v["children"].v
                 ELSE <<>>
          kids == [i \in 1..Len(raw) |-> parse_layout_node(raw[i])]
          bad == {i \in 1..Len(raw) : kids[i].raised}
          children == IF "children" \in DOMAIN node_data.v
                      THEN Arr([i \in 1..Len(raw) |-> kids[i].val])
                      ELSE None
      IN  IF bad # {}
          THEN kids[Least(bad)]
          ELSE Return(LayoutNode(node_data, action, children))

\* the NovaDocument(...) built from the top-level object and its layout
NovaDocument(data, layout) ==
    [t |-> "NovaDocument",
     version |-> data.v["version"],
     layout |-> layout,
     requires |-> get(data, "requires", None),
     metadata |-> get(data, "metadata", None),
     csp |-> get(data, "csp", None),
     manifest |-> get(data, "manifest", None),
     service_worker |-> get(data, "service_worker", None),
     metrics |-> None,
     raw_content |-> None]

\* mutant: a missing version counts as "1.0"
validate_document_default_version(data) ==
    IF data.t # "obj"
    THEN Raise("ValueError", "Document must be a JSON object")
    ELSE IF get(data, "version", Str("1.0")) # Str("1.0")
    THEN Raise("ValueError", "Only Nova Document version 1.0 supported")
    ELSE IF "layout" \notin DOMAIN data.v
    THEN Raise("ValueError", "Document must contain 'layout'")
    ELSE
      LET layout == parse_layout_node(data.v["layout"])
      IN  IF layout.raised
          THEN layout
          ELSE Return(NovaDocument(Obj(data.v @@ ("version" :> Str("1.0"))),
                                   layout.val))

\* mutant: a missing layout counts as an empty column
validate_document_default_layout(data) ==
    IF data.t # "obj"
    THEN Raise("ValueError", "Document must be a JSON object")
    ELSE IF get(data, "version", None) # Str("1.0")
    THEN Raise("ValueError", "Only Nova Document version 1.0 supported")
    ELSE
      LET layout == parse_layout_node(get(data, "layout", Obj([type |-> Str("column")])))
      IN  IF layout.raised
          THEN layout
          ELSE Return(NovaDocument(data, layout.val))

validate_document(data) ==
    IF data.t # "obj"
    THEN Raise("ValueError", "Document must be a JSON object")
    ELSE IF get(data, "version", None) # Str("1.0")
    THEN Raise("ValueError", "Only Nova Document version 1.0 supported")
    ELSE IF "layout" \notin DOMAIN data.v
    THEN Raise("ValueError", "Document must contain 'layout'")
    ELSE
      LET layout == parse_layout_node(data.v["layout"])
      IN  IF layout.raised
          THEN layout
          ELSE Return(NovaDocument(data, layout.val))

\* json.loads: a text is either not well-formed JSON (JSONDecodeError) or
\* denotes one JSON value
json_loads(json_str) ==
    IF json_str.wf
    THEN Return(json_str.val)
    ELSE Raise("JSONDecodeError", "Expecting value")

parse_document(json_str) ==
    LET data == json_loads(json_str)
    IN  IF data.raised
        THEN Raise("ValueError", "Invalid JSON document")
        ELSE LET doc == validate_document(data.val)
             IN  IF doc.raised
                 THEN doc
                 ELSE Return([doc.val EXCEPT
                                !.raw_content = json_str,
                                !.metrics = PerformanceMetrics(0)])

(***************************************************************************)
(* Renderer: the action collection pass.                                   *)
(* An entry of the list under construction is the appended Action with,    *)
(* as a ghost, the path (child indices from the root) of the node whose    *)
(* visit appended it; collect_actions returns the Actions alone.           *)
(***************************************************************************)
Entry(a, path) == [act |-> a, at |-> path]

\* if node.action: actions.append(node.action)
append_explicit(node, actions, path) ==
    IF Truthy(node.action)
    THEN Append(actions, Entry(node.action, path))
    ELSE actions

\* if node.node_type == "form" and node.id: append a form_submit
append_form_submit(node, actions, path) ==
    IF node.node_type = Str("form") /\ Truthy(node.id)
    THEN Append(actions,
                Entry([Action(Str("form_submit")) EXCEPT !.form_id = node.id], path))
    ELSE actions

\* Action(action_type="media_control", media_id=node.id, command=command)
media_control(node, command) ==
    [Action(Str("media_control")) EXCEPT !.media_id = node.id,
                                         !.command = Str(command)]

\* mutant: the controls flag is not looked at
append_media_controls_any(node, actions, path) ==
    IF /\ node.node_type \in {Str("audio"), Str("video")}
       /\ Truthy(node.id)
    THEN actions \o <<Entry(media_control(node, "play"), path),
                      Entry(media_control(node, "pause"), path),
                      Entry(media_control(node, "stop"), path)>>
    ELSE actions

\* audio/video with controls true or None, and an id: play, pause, stop
append_media_controls(node, actions, path) ==
    IF /\ node.node_type \in {Str("audio"), Str("video")}
       /\ (Truthy(node.controls) \/ node.controls = None)
       /\ Truthy(node.id)
    THEN actions \o <<Entry(media_control(node, "play"), path),
                      Entry(media_control(node, "pause"), path),
                      Entry(media_control(node, "stop"), path)>>
    ELSE actions

\* mutant: a link that has an explicit action gets no navigate
append_navigate_unless_action(node, actions, path) ==
    IF node.node_type = Str("link") /\ Truthy(node.destination) /\ ~Truthy(node.action)
    THEN Append(actions,
                Entry([Action(Str("navigate")) EXCEPT
                         !.destination = node.destination], path))
    ELSE actions

\* if node.node_type == "link" and node.destination: append a navigate
append_navigate(node, actions, path) ==
    IF node.node_type = Str("link") /\ Truthy(node.destination)
    THEN Append(actions,
                Entry([Action(Str("navigate")) EXCEPT
                         !.destination = node.destination], path))
    ELSE actions

RECURSIVE collect_actions_recursive(_, _, _)
RECURSIVE collect_children(_, _, _, _)

\* for child in node.children: self._collect_actions_recursive(child, actions)
collect_children(kids, i, actions, path) ==
    IF i > Len(kids)
    THEN actions
    ELSE collect_children(kids, i + 1,
             collect_actions_recursive(kids[i], actions, Append(path, i)), path)

\* mutant: the children are visited before the node's own actions are
\* appended
collect_children_first(node, actions, path) ==
    LET a0 == IF Truthy(node.children)
              THEN collect_children(node.children.v, 1, actions, path)
              ELSE actions
        a1 == append_explicit(node, a0, path)
        a2 == append_form_submit(node, a1, path)
        a3 == append_media_controls(node, a2, path)
    IN  append_navigate(node, a3, path)

\* mutant: the form_submit of a form is appended after its children's
\* actions
collect_form_submit_last(node, actions, path) ==
    LET a1 == append_explicit(node, actions, path)
        a3 == append_media_controls(node, a1, path)
        a4 == append_navigate(node, a3, path)
        a5 == IF Truthy(node.children)
              THEN collect_children(node.children.v, 1, a4, path)
              ELSE a4
    IN  append_form_submit(node, a5, path)

collect_actions_recursive(node, actions, path) ==
    LET a1 == append_explicit(node, actions, path)
        a2 == append_form_submit(node, a1, path)
        a3 == append_media_controls(node, a2, path)
        a4 == append_navigate(node, a3, path)
    IN  IF Truthy(node.children)
        THEN collect_children(node.children.v, 1, a4, path)
        ELSE a4

\* mutant: the list of the previous call is kept and appended to
collect_entries_stale(node) ==
    collect_actions_recursive(node,
        [i \in 1..Len(menu.list) |-> Entry(menu.list[i], <<>>)], <<>>)

\* actions = []; self._collect_actions_recursive(node, actions); return actions
collect_entries(node) == collect_actions_recursive(node, <<>>, <<>>)

collect_actions(node) ==
    LET entries == collect_entries(node)
    IN  [i \in 1..Len(entries) |-> entries[i].act]

\* ghost: the node each collected action was appended at
ActionOwners(node) ==
    LET entries == collect_entries(node)
    IN  [i \in 1..Len(entries) |-> entries[i].at]

(***************************************************************************)
(* Renderer: the text render pass.                                         *)
(* A printed line is recorded by its kind, the node (path) whose renderer  *)
(* printed it, the width of its indent, a number n (the hashes of a        *)
(* heading prefix) and, as a ghost, the nodes the line displays.           *)
(* A renderer step yields the lines it printed and whether an exception    *)
(* left it.                                                                *)
(***************************************************************************)
Spaces(n) == [t |-> "spaces", v |-> n]

Line(kind, path, indent, n, shows) ==
    [kind |-> kind, node |-> path, indent |-> indent.v, n |-> n, shows |-> shows]

Printed(lines) == [lines |-> lines, raised |-> FALSE]
Threw(lines) == [lines |-> lines, raised |-> TRUE]

\* x or default
Or(x, default) == IF Truthy(x) THEN x ELSE default

render_heading(node, indent, path) ==
    LET level == Or(node.level, Num(1))
        text == Or(node.text, Str(""))
    IN  IF level = Num(1) \/ level = Bool(TRUE)
        THEN IF text.t \in {"arr", "obj"}
             \* f"{text:^74}" of a list or a dict: TypeError
             THEN Threw(<<Line("heading_box_top", path, indent, 0, <<>>)>>)
             ELSE Printed(<<Line("heading_box_top", path, indent, 0, <<>>),
                            Line("heading_box", path, indent, 0, <<path>>),
                            Line("heading_box_bottom", path, indent, 0, <<>>)>>)
        ELSE IF level.t # "num"
             \* "#" * level with a level that is no integer: TypeError
             THEN Threw(<<>>)
             ELSE Printed(<<Line("heading", path, indent, level.v, <<path>>)>>)

render_button(node, indent, path) ==
    Printed(<<Line("button", path, indent, 0, <<path>>)>>)

render_link(node, indent, path) ==
    Printed(<<Line("link", path, indent, 0, <<path>>)>>)

render_input(node, indent, path) ==
    Printed(<<Line("input", path, indent, 0, <<path>>)>>)

\* the wrapped lines of a text; a text is one atom here and fills one line
\* a printed line of text: what follows the indent, and its length
TextLine(kind, path, indent, text) ==
    [kind |-> kind, node |-> path, indent |-> indent.v, n |-> Len(text),
     shows |-> <<path>>, text |-> text]

\* c * n
RECURSIVE Rep(_, _)
Rep(c, n) == IF n <= 0 THEN "" ELSE c \o Rep(c, n - 1)

\* ' '.join(words)
RECURSIVE join(_)
join(words) ==
    IF words = <<>> THEN ""
    ELSE IF Len(words) = 1 THEN words[1]
    ELSE words[1] \o " " \o join(Tail(words))

\* the texts to wrap are made of up to MaxWords words of 1, 37, 38 and 77
\* characters: a line of 37 + 1 + 38 characters is full, one of 38 + 1 + 38
\* is over, a word of 77 fits no line
MaxWords == 3
WordLists ==
    UNION {[1..k -> {Rep("a", 1), Rep("b", 37), Rep("c", 38), Rep("d", 77)}] :
              k \in 0..MaxWords}

\* text.split(): the words of a text, for the texts made of the words above;
\* any other text of the model is short and is kept as one piece, which
\* prints the same line
split(s) ==
    IF \E ws \in WordLists : s = join(ws)
    THEN CHOOSE ws \in WordLists : s = join(ws)
    ELSE <<s>>

\* the loop over the words: a word joins the current line if the line stays
\* within the width, else the current line is closed, empty or not
RECURSIVE wrap(_, _, _)
wrap(words, current_line, lines) ==
    IF words = <<>>
    THEN IF current_line # <<>> THEN Append(lines, join(current_line)) ELSE lines
    ELSE LET word == Head(words)
         IN  IF Len(join(Append(current_line, word))) <= 76
             THEN wrap(Tail(words), Append(current_line, word), lines)
             ELSE wrap(Tail(words), <<word>>, Append(lines, join(current_line)))

render_paragraph(node, indent, path) ==
    LET text == Or(node.text, Str(""))
    IN  IF ~Truthy(text)
        THEN Printed(<<>>)
        ELSE IF text.t # "str"
             \* text.split() of a value that is no string: AttributeError
             THEN Threw(<<>>)
             ELSE LET lines == wrap(split(text.v), <<>>, <<>>)
                  IN  Printed([i \in 1..Len(lines) |->
                                 TextLine("paragraph", path, indent, lines[i])])

\* for row in node.table_data: the elements of a list, the characters of a
\* str, the keys of a dict; a number or a bool is not iterable
table_rows(data) ==
    CASE data.t = "arr" -> data.v
      [] data.t = "str" -> [i \in 1..Len(data.v) |-> Str("c")]
      [] data.t = "obj" -> [i \in 1..Cardinality(DOMAIN data.v) |-> Str("k")]
      [] OTHER -> <<>>

\* one line per row; a row that is no iterable raises
render_table(node, indent, path) ==
    IF ~Truthy(node.table_data)
    THEN Printed(<<>>)
    ELSE LET open == <<Line("table_top", path, indent, 0, <<path>>)>>
             data == node.table_data
         IN  IF data.t \in {"num", "bool"}
             THEN Threw(open)
             ELSE LET rows == table_rows(data)
                      bad == {i \in 1..Len(rows) : rows[i].t \in {"num", "bool", "null"}}
                      upto == IF bad = {} THEN Len(rows) ELSE Least(bad) - 1
                      body == [i \in 1..upto |->
                                 Line("table_row", path, indent, 0, <<path>>)]
                  IN  IF bad # {}
                      THEN Threw(open \o body)
                      ELSE Printed(open \o body \o
                             <<Line("table_bottom", path, indent, 0, <<>>)>>)

render_code(node, indent, path) ==
    LET text == Or(node.text, Str(""))
        open == <<Line("code_top", path, indent, 0, <<path>>)>>
    IN  IF text.t # "str"
        \* text.split('\n') of a value that is no string: AttributeError
        THEN Threw(open)
        ELSE Printed(open \o <<Line("code_line", path, indent, 0, <<path>>),
                               Line("code_bottom", path, indent, 0, <<>>)>>)

render_media(node, indent, path) ==
    IF node.node_type \in {Str("image"), Str("audio"), Str("video")}
    THEN Printed(<<Line("media", path, indent, 0, <<path>>)>>)
    ELSE Printed(<<>>)

render_generic(node, indent, path) ==
    LET text == Or(node.text, Str(""))
    IN  IF text.t = "str"
        THEN Printed(<<TextLine("generic", path, indent, text.v)>>)
        \* the text of another value is its str()
        ELSE Printed(<<Line("generic", path, indent, 0, <<path>>)>>)

\* indent + 2, where indent is the str that _render_node passes on
indent_plus_2(indent) ==
    IF indent.t = "num" THEN Return(Num(indent.v + 2)) ELSE Raise("TypeError", "str + int")

\* the items of a row: its text, button and link children, in order
RECURSIVE row_items(_, _, _)
row_items(kids, i, path) ==
    IF i > Len(kids)
    THEN <<>>
    ELSE (IF kids[i].node_type \in {Str("text"), Str("button"), Str("link")}
          THEN <<Append(path, i)>>
          ELSE <<>>) \o row_items(kids, i + 1, path)

RECURSIVE render_node(_, _, _)
RECURSIVE render_each(_, _, _, _, _)
RECURSIVE render_grid_cells(_, _, _, _, _)

\* for child in node.children: self._render_node(child, indent)
\* stops at the first child whose call raises
render_each(kids, i, indent, path, lines) ==
    IF i > Len(kids)
    THEN Printed(lines)
    ELSE LET r == render_node(kids[i], indent, Append(path, i))
         IN  IF r.raised
             THEN Threw(lines \o r.lines)
             ELSE render_each(kids, i + 1, indent, path, lines \o r.lines)

render_form(node, indent, path) ==
    LET open == <<Line("form_top", path, indent, 0, <<path>>)>>
        close == <<Line("form_bottom", path, indent, 0, <<>>)>>
    IN  IF ~Truthy(node.children)
        THEN Printed(open \o close)
        ELSE LET inner == indent_plus_2(indent)
             IN  IF inner.raised
                 THEN Threw(open)
                 ELSE LET r == render_each(node.children.v, 1, inner.val, path, open)
                      IN  IF r.raised THEN r ELSE Printed(r.lines \o close)

\* the cells of a grid: "| " without a line end, the child at indent 0, a
\* separator after every child but the last
render_grid_cells(kids, i, indent, path, lines) ==
    IF i > Len(kids)
    THEN Printed(lines)
    ELSE LET cell == <<Line("grid_cell", path, indent, 0, <<>>)>>
             r == render_node(kids[i], Num(0), Append(path, i))
             sep == IF i < Len(kids)
                    THEN <<Line("grid_separator", path, indent, 0, <<>>)>>
                    ELSE <<>>
         IN  IF r.raised
             THEN Threw(lines \o cell \o r.lines)
             ELSE render_grid_cells(kids, i + 1, indent, path,
                                    lines \o cell \o r.lines \o sep)

render_container(node, indent, path) ==
    IF ~Truthy(node.children)
    THEN Printed(<<>>)
    ELSE IF node.node_type = Str("column")
    THEN render_each(node.children.v, 1, indent, path, <<>>)
    ELSE IF node.node_type = Str("row")
    THEN LET items == row_items(node.children.v, 1, path)
         IN  IF items # <<>>
             THEN Printed(<<Line("row", path, indent, 0, items)>>)
             ELSE Printed(<<>>)
    ELSE IF node.node_type = Str("grid")
    THEN LET r == render_grid_cells(node.children.v, 1, indent, path,
                      <<Line("grid_top", path, indent, 0, <<path>>)>>)
         IN  IF r.raised
             THEN r
             ELSE Printed(r.lines \o <<Line("grid_bottom", path, indent, 0, <<>>)>>)
    ELSE Printed(<<>>)

\* the renderer the type of a node selects
render_by_type(node, indent_str, path) ==
    CASE node.node_type = Str("heading") -> render_heading(node, indent_str, path)
      [] node.node_type = Str("paragraph") -> render_paragraph(node, indent_str, path)
      [] node.node_type = Str("button") -> render_button(node, indent_str, path)
      [] node.node_type = Str("link") -> render_link(node, indent_str, path)
      [] node.node_type = Str("input") -> render_input(node, indent_str, path)
      [] node.node_type = Str("form") -> render_form(node, indent_str, path)
      [] node.node_type = Str("table") -> render_table(node, indent_str, path)
      [] node.node_type = Str("code") -> render_code(node, indent_str, path)
      [] node.node_type \in {Str("image"), Str("audio"), Str("video")} ->
             render_media(node, indent_str, path)
      [] node.node_type \in {Str("column"), Str("row"), Str("grid")} ->
             render_container(node, indent_str, path)
      [] OTHER -> render_generic(node, indent_str, path)

\* indent_str = " " * indent is computed before the try: an indent that is
\* no integer raises out of the call; an exception of the node's renderer
\* is caught here and answered with one error line
render_node(node, indent, path) ==
    IF indent.t # "num"
    THEN Threw(<<>>)
    ELSE LET indent_str == Spaces(indent.v)
             r == render_by_type(node, indent_str, path)
         IN  IF r.raised
             THEN Printed(Append(r.lines, Line("error", path, indent_str, 0, <<>>)))
             ELSE r

\* the browser chrome and the document info of the header; the optional
\* title and description lines are those of a metadata dict
render_enhanced_header(doc) ==
    LET meta == IF Truthy(doc.metadata) /\ doc.metadata.t = "obj"
                THEN doc.metadata.v
                ELSE <<>>
        chrome == [i \in 1..4 |-> Line("chrome", <<>>, Spaces(0), 0, <<>>)]
    IN  chrome
        \o (IF "title" \in DOMAIN meta
            THEN <<Line("title", <<>>, Spaces(0), 0, <<>>)>> ELSE <<>>)
        \o (IF "description" \in DOMAIN meta
            THEN <<Line("description", <<>>, Spaces(0), 0, <<>>)>> ELSE <<>>)
        \o <<Line("rule", <<>>, Spaces(0), 0, <<>>)>>

\* what render_document writes to the cleared screen
render_lines(doc) ==
    render_enhanced_header(doc) \o render_node(doc.layout, Num(0), <<>>).lines

\* the document after render_document: its metrics carry the render time
render_document(doc, elapsed) ==
    IF Truthy(doc.metrics)
    THEN [doc EXCEPT !.metrics.render_time = elapsed]
    ELSE doc

(***************************************************************************)
(* Input texts.  A text is well-formed JSON denoting a value, or it is not *)
(* well-formed.                                                            *)
(***************************************************************************)
Text(v) == [wf |-> TRUE, val |-> v]
Malformed == [wf |-> FALSE, val |-> None]

\* {"version": "1.0", "layout": layout}
Document(layout) == Obj([version |-> Str("1.0"), layout |-> layout])

\* a node object with the keys of shape and the given children
Node(shape, kids) == Obj(shape @@ ("children" :> Arr(kids)))

RECURSIVE TreesOfSize(_, _, _)
RECURSIVE Forests(_, _, _)

\* the sequences of trees with n nodes in all
Forests(inner, leaves, n) ==
    IF n = 0
    THEN {<<>>}
    ELSE UNION {{<<tr>> \o f : tr \in TreesOfSize(inner, leaves, k),
                            f \in Forests(inner, leaves, n - k)} : k \in 1..n}

\* the trees with n nodes: a root of a shape of inner over a forest, or,
\* alone, a value of leaves
TreesOfSize(inner, leaves, n) ==
    IF n = 1
    THEN leaves \cup {Obj(shape) : shape \in inner}
    ELSE {Node(shape, f) : shape \in inner, f \in Forests(inner, leaves, n - 1)}

TreesUpTo(inner, leaves, n) == UNION {TreesOfSize(inner, leaves, k) : k \in 1..n}

\* walk family: nodes that contribute 2, 3 and 2 actions of their own
WalkShapes ==
    {[type |-> Str("form"), id |-> Str("f1"),
      action |-> Obj([type |-> Str("store"), key |-> Str("k")])],
     [type |-> Str("video"), id |-> Str("m1")],
     [type |-> Str("link"), destination |-> Str("u"),
      action |-> Obj([type |-> Str("custom")])]}

WalkTexts == {Text(Document(tr)) : tr \in TreesUpTo(WalkShapes, {}, MaxNodes)}

\* node family: one node, every combination of the fields that the action
\* collection reads
Optional(key, values) == {<<>>} \cup {key :> x : x \in values}

NodeShapes ==
    {("type" :> Str(ty)) @@ a @@ i @@ d @@ c :
        ty \in {"form", "audio", "video", "link", "button", "text"},
        a \in Optional("action", {Obj([type |-> Str("store"), key |-> Str("k")])}),
        i \in Optional("id", {Str(""), Str("f1")}),
        d \in Optional("destination", {Str(""), Str("u")}),
        c \in Optional("controls", {Bool(TRUE), Bool(FALSE)})}

NodeTexts == {Text(Document(Obj(shape))) : shape \in NodeShapes}

\* nesting family: a parent of every kind of renderer over one or two
\* children that carry actions
ChildShapes ==
    {[type |-> Str("text"), text |-> Str("t")],
     [type |-> Str("button"), text |-> Str("b"),
      action |-> Obj([type |-> Str("show_stats")])],
     [type |-> Str("link"), text |-> Str("l"), destination |-> Str("u")],
     [type |-> Str("form"), id |-> Str("f1")],
     [type |-> Str("video"), id |-> Str("m1")]}

ParentTypes ==
    {"column", "row", "grid", "form", "button", "link", "paragraph", "panel"}

NestedTexts ==
    {Text(Document(Node([type |-> Str(ty)], kids))) :
        ty \in ParentTypes,
        kids \in {<<Obj(x)>> : x \in ChildShapes}
                 \cup {<<Obj(x), Obj(y)>> : x \in ChildShapes, y \in ChildShapes}}

\* a form with id "f1" over two buttons, one of them with an action
FormOfTwoButtons(first_has_action) ==
    LET plain == Obj([type |-> Str("button"), text |-> Str("Cancel")])
        acting == Obj([type |-> Str("button"), text |-> Str("OK"),
                       action |-> Obj([type |-> Str("store"), key |-> Str("k")])])
    IN  Node([type |-> Str("form"), id |-> Str("f1")],
             IF first_has_action THEN <<acting, plain>> ELSE <<plain, acting>>)

FormTexts == {Text(Document(FormOfTwoButtons(b))) : b \in BOOLEAN}

\* malformed family: nodes that are no object, lack "type", carry an action
\* that is no object or children that are no array, at every depth
RawShapes ==
    {[type |-> Str("text")],
     [text |-> Str("hi")],
     [type |-> Str("button"), action |-> Str("go")]}

RawLeaves ==
    {Str("x"), None,
     Obj([type |-> Str("column"), children |-> Str("x")]),
     Obj([type |-> Str("button"), action |-> None])}

RawTexts == {Text(Document(tr)) : tr \in TreesUpTo(RawShapes, RawLeaves, MaxRawNodes)}

\* top-level family: texts that are no JSON, values that are no object,
\* objects with any version and with or without a layout
TopTexts ==
    {Malformed, Text(Str("x")), Text(Arr(<<>>)), Text(Num(1)), Text(None)}
    \cup {Text(Obj(ver @@ lay)) :
            ver \in Optional("version", {Str("1.0"), Str("2.0"), Num(1), None}),
            lay \in Optional("layout", {Obj([type |-> Str("text")]),
                                        Obj([text |-> Str("hi")])})}

\* optional-field family: one node with one of the pass-through keys of
\* _parse_layout_node set to a value of every JSON type
OptionalKeys ==
    {"text", "level", "destination", "id", "placeholder", "source", "controls",
     "autoplay", "width", "height", "responsive", "animation", "style",
     "form_type", "required", "min_length", "max_length", "pattern",
     "table_data", "language", "aria_label", "role"}

AnyValues ==
    {None, Str("x"), Num(2), Bool(FALSE), Arr(<<Str("a")>>), Obj([k |-> Str("v")])}

OptionalTexts ==
    {Text(Document(Obj(("type" :> Str(ty)) @@ (k :> x)))) :
        ty \in {"text", "heading", "table"}, k \in OptionalKeys, x \in AnyValues}

\* isolation family: a parent whose renderer renders its children one by
\* one, over two or three children: a text, a heading whose renderer raises
\* ("#" * "x") and a column with a child
SiblingShapes ==
    {Obj([type |-> Str("text"), text |-> Str("a")]),
     Obj([type |-> Str("heading"), level |-> Str("x"), text |-> Str("h")]),
     Node([type |-> Str("column")], <<Obj([type |-> Str("text"), text |-> Str("c")])>>)}

IsolationTexts ==
    {Text(Document(Node([type |-> Str(ty)], kids))) :
        ty \in {"column", "form", "grid"},
        kids \in {<<x, y>> : x \in SiblingShapes, y \in SiblingShapes}
                 \cup {<<x, y, z>> : x \in SiblingShapes, y \in SiblingShapes,
                                     z \in SiblingShapes}}

InputTexts == WalkTexts \cup NodeTexts \cup NestedTexts \cup FormTexts
              \cup RawTexts \cup TopTexts \cup OptionalTexts \cup IsolationTexts

\* the demo document of the runtime, /welcome.nova
WelcomeText ==
    Text(Obj([version |-> Str("1.0"),
              metadata |-> Obj([title |-> Str("Nova Browser - Production Ready"),
                                description |-> Str("Secure, fast, privacy-first browsing experience")]),
              layout |-> Node([type |-> Str("column")],
                 <<Obj([type |-> Str("heading"), level |-> Num(1),
                        text |-> Str("Nova Browser - Production Ready")]),
                   Obj([type |-> Str("paragraph"), text |-> Str("Experience")]),
                   Node([type |-> Str("grid")],
                      <<Obj([type |-> Str("button"), text |-> Str("Web Search"),
                             action |-> Obj([type |-> Str("search")])]),
                        Obj([type |-> Str("button"), text |-> Str("Example Site"),
                             action |-> Obj([type |-> Str("navigate"),
                                             destination |-> Str("https://httpbin.org/json")])]),
                        Obj([type |-> Str("button"), text |-> Str("Browser Status"),
                             action |-> Obj([type |-> Str("show_stats")])]),
                        Obj([type |-> Str("button"), text |-> Str("Reload"),
                             action |-> Obj([type |-> Str("navigate"),
                                             destination |-> Str("file:///welcome.nova")])])>>),
                   Obj([type |-> Str("text"), text |-> Str("Try these commands")])>>)]))

WelcomeDocument == parse_document(WelcomeText).val

(***************************************************************************)
(* NetworkClient and NovaRuntime.                                          *)
(* A url is a Python value; str.startswith and str.replace are tabulated   *)
(* over the urls of the model.                                             *)
(***************************************************************************)
current_url == Str("file:///welcome.nova")

SearchUrl == "https://duckduckgo.com/html/?q=q"

\* urls for which url.startswith(('http://', 'https://')) holds
HttpUrls == {"https://httpbin.org/json", SearchUrl}

\* urls for which url.startswith('file:///') holds
FileUrls == {"file:///welcome.nova", "file:////welcome.nova", "file:///missing.nova"}

\* url.replace('file:///', '')
doc_key(url) ==
    CASE url = "file:///welcome.nova" -> "welcome.nova"
      [] url = "file:////welcome.nova" -> "/welcome.nova"
      [] url = "file:///missing.nova" -> "missing.nova"

\* self.documents, as _load_demo_documents returns it
documents == ("/welcome.nova" :> WelcomeText)

\* Tab(id=tab_id, url=url, title="Loading..."); the id of a tab is its
\* position in self.tabs
Tab(url) ==
    [t |-> "Tab", url |-> url, title |-> Str("Loading..."), document |-> None,
     history |-> <<>>]

\* json.dumps(self._create_error_document(error_msg))
create_error_document(error_msg) ==
    Text(Obj([version |-> Str("1.0"),
              metadata |-> Obj([title |-> Str("Error Loading Page"),
                                description |-> Str("The requested document could not be loaded")]),
              layout |-> Node([type |-> Str("column")],
                 <<Obj([type |-> Str("heading"), level |-> Num(1),
                        text |-> Str("Page Load Error")]),
                   Obj([type |-> Str("text"), text |-> Str(error_msg)]),
                   Obj([type |-> Str("button"), text |-> Str("Reload"),
                        action |-> Obj([type |-> Str("navigate"),
                                        destination |-> current_url])]),
                   Obj([type |-> Str("link"), text |-> Str("Back to Home"),
                        destination |-> Str("file:///welcome.nova")])>>)]))

\* the fallback document that fetch_url returns as text when the request
\* raised a RequestException
network_error_document(url) ==
    Text(Obj([version |-> Str("1.0"),
              metadata |-> Obj([title |-> Str("Network Error"),
                                description |-> Str("Failed to load " \o url)]),
              layout |-> Node([type |-> Str("column")],
                 <<Obj([type |-> Str("heading"), level |-> Num(1),
                        text |-> Str("Network Error"),
                        style |-> Obj([color |-> Str("red")])]),
                   Obj([type |-> Str("text"), text |-> Str("Could not load: " \o url)]),
                   Obj([type |-> Str("text"), text |-> Str("Error: e")]),
                   Obj([type |-> Str("button"), text |-> Str("Retry"),
                        action |-> Obj([type |-> Str("navigate"),
                                        destination |-> Str(url)])])>>)]))

\* fetch_url(url) under what the network does: the cached entry is fresh or
\* not, the request succeeds with a body or raises a RequestException.
\* Yields the text returned and the cache afterwards.
fetch_url(url, cache, net) ==
    IF url \in DOMAIN cache /\ net.fresh
    THEN [ret |-> Return(cache[url]), cache |-> cache]
    ELSE IF net.ok
    THEN [ret |-> Return(net.body),
          cache |-> [u \in DOMAIN cache \cup {url} |->
                        IF u = url THEN net.body ELSE cache[u]]]
    ELSE [ret |-> Return(network_error_document(url)), cache |-> cache]

\* a document a server may answer with: a grid of an unrecognized action, a
\* navigation to an unsupported protocol and a link
PageText ==
    Text(Obj([version |-> Str("1.0"),
              metadata |-> Obj([title |-> Str("Page")]),
              layout |-> Node([type |-> Str("grid")],
                 <<Obj([type |-> Str("button"), text |-> Str("Share"),
                        action |-> Obj([type |-> Str("custom"), key |-> Str("k"),
                                        value |-> Num(2)])]),
                   Obj([type |-> Str("button"), text |-> Str("Old"),
                        action |-> Obj([type |-> Str("navigate"),
                                        destination |-> Str("ftp://x")])]),
                   Obj([type |-> Str("link"), text |-> Str("Gone"),
                        destination |-> Str("file:///missing.nova")])>>)]))

\* a document whose metadata is not an object
BadMetadataText ==
    Text(Obj([version |-> Str("1.0"), metadata |-> Str("x"),
              layout |-> Obj([type |-> Str("text"), text |-> Str("b")])]))

\* documents that fail validation: wrong version, no layout, a node
\* without a type
WrongVersionText ==
    Text(Obj([version |-> Str("2.0"),
              layout |-> Obj([type |-> Str("text"), text |-> Str("b")])]))
NoLayoutText == Text(Obj([version |-> Str("1.0")]))
SchemaViolationText ==
    Text(Document(Node([type |-> Str("column")], <<Obj([text |-> Str("b")])>>)))

\* the response bodies of the model
Bodies ==
    {PageText, BadMetadataText, Malformed, WrongVersionText, NoLayoutText,
     SchemaViolationText}

\* what the network does to one request: the cached entry, if there is one,
\* is still fresh; or the request is made and succeeds with one of the
\* bodies, or raises
Networks(bodies) ==
    {[fresh |-> FALSE, ok |-> TRUE, body |-> b] : b \in bodies}
    \cup {[fresh |-> f, ok |-> FALSE, body |-> Malformed] : f \in BOOLEAN}

\* what the network and the disk do during one load_document(url): only an
\* http url reaches the network
Envs(url, bodies) ==
    {[net |-> n, save_ok |-> s] :
        n \in IF url.t = "str" /\ url.v \in HttpUrls THEN Networks(bodies)
              ELSE {[fresh |-> FALSE, ok |-> FALSE, body |-> Malformed]},
        s \in BOOLEAN}

\* for tab in self.tabs: if tab.id == self.active_tab_id: return tab; 0 is
\* the None it returns when no tab has the id
get_active_tab(ts, active) == IF active \in 1..Len(ts) THEN active ELSE 0

\* create_tab(url): the new tab is appended and made the active one
create_tab(ts, url) == [tabs |-> Append(ts, Tab(url)), active |-> Len(ts) + 1]

\* the "Get document content" step of load_document: the text to parse, or
\* the exception that left the step; with the cache afterwards and, when
\* fetch_url was called, what it was asked and what it answered
load_content(url, cache, net) ==
    IF url.t # "str"
    THEN [ret |-> Raise("AttributeError", "object has no attribute 'startswith'"),
          cache |-> cache, fetch |-> None]
    ELSE IF url.v \in HttpUrls
    THEN LET f == fetch_url(url.v, cache, net)
         IN  [ret |-> f.ret, cache |-> f.cache,
              fetch |-> [url |-> url.v, net |-> net,
                         hit |-> url.v \in DOMAIN cache /\ net.fresh,
                         ret |-> f.ret]]
    ELSE IF url.v \in FileUrls
    THEN [ret |-> IF doc_key(url.v) \in DOMAIN documents
                  THEN Return(documents[doc_key(url.v)])
                  ELSE Return(create_error_document("Document not found: "
                                                    \o doc_key(url.v))),
          cache |-> cache, fetch |-> None]
    ELSE [ret |-> Return(create_error_document("Unsupported protocol: " \o url.v)),
          cache |-> cache, fetch |-> None]

\* the "Update tab" and "Add to history" steps of load_document: the tab as
\* the steps leave it, and the exception if one of them raised.  The browsing
\* history file is modelled by whether StorageManager.save raises.
update_tab(tab, url, doc, save_ok) ==
    LET tab1 == [tab EXCEPT !.url = url, !.document = doc]
    IN  IF Truthy(doc.metadata) /\ doc.metadata.t # "obj"
        THEN [tab |-> tab1,
              ret |-> Raise("AttributeError", "object has no attribute 'get'")]
        ELSE LET title == IF Truthy(doc.metadata)
                          THEN get(doc.metadata, "title", url) ELSE url
                 tab2 == [tab1 EXCEPT !.title = title,
                                      !.history = Append(@, url)]
             IN  [tab |-> tab2,
                  ret |-> IF save_ok THEN Return(TRUE)
                          ELSE Raise("OSError", "save failed")]

\* mutant: a failed load leaves the tab as it is
error_tab_none(tab, e) == tab

\* the except branch of load_document: the tab gets the parsed error document
error_tab(tab, e) ==
    [tab EXCEPT !.document = parse_document(create_error_document(e.msg)).val]

\* load_document(url, tab) on the runtime st = [tabs, active, cache], where
\* at = 0 stands for tab=None; env is what the network and the disk do.
\* Yields the runtime afterwards, the value returned (ok) and, as ghosts, the
\* tab loaded into, the text parsed and the fetch made.
load_document(url, at, st, env) ==
    LET found == IF at # 0 THEN at ELSE get_active_tab(st.tabs, st.active)
        made == IF found = 0 THEN create_tab(st.tabs, url)
                ELSE [tabs |-> st.tabs, active |-> st.active]
        target == IF found = 0 THEN made.active ELSE found
        c == load_content(url, st.cache, env.net)
        doc == IF c.ret.raised THEN c.ret ELSE parse_document(c.ret.val)
        upd == IF doc.raised THEN [tab |-> made.tabs[target], ret |-> doc]
               ELSE update_tab(made.tabs[target], url, doc.val, env.save_ok)
    IN  [tabs |-> [made.tabs EXCEPT ![target] =
                      IF upd.ret.raised THEN error_tab(upd.tab, upd.ret)
                      ELSE upd.tab],
         active |-> made.active,
         cache |-> c.cache,
         ok |-> ~upd.ret.raised,
         url |-> url,
         target |-> target,
         content |-> c.ret,
         fetch |-> c.fetch]

\* icons.get(action_type, ...) hashes the type, and _get_action_description
\* calls str methods on the destination of a navigation and on a type it
\* does not know: _show_actions_menu raises on values that lack them
RecognizedTypes == {Str("navigate"), Str("store"), Str("search"), Str("show_stats")}

show_actions_menu_raises(actions) ==
    \E i \in 1..Len(actions) :
        LET a == actions[i]
        IN  \/ a.action_type.t \in {"arr", "obj"}
            \/ a.action_type = Str("navigate") /\ Truthy(a.destination)
               /\ a.destination.t # "str"
            \/ a.action_type \notin RecognizedTypes /\ a.action_type.t # "str"

\* url = input(...).strip(); urls without a known scheme get 'https://'
new_tab_url(typed) ==
    IF typed \in HttpUrls \cup FileUrls THEN typed ELSE "https://" \o typed

\* the branch of _execute_action that handles an action
handled_as(action) ==
    IF action.action_type = Str("navigate") /\ Truthy(action.destination)
    THEN "navigate"
    ELSE IF action.action_type = Str("search") THEN "search"
    ELSE IF action.action_type = Str("show_stats") THEN "show_stats"
    ELSE "not implemented"

\* mutant: every action loads something
url_of_always(action, query) ==
    IF Truthy(action.destination) THEN action.destination ELSE current_url

\* the url _execute_action passes to load_document for an action, None if
\* it loads nothing; query is what the user types when asked for one
url_of(action, query) ==
    IF action.action_type = Str("navigate") /\ Truthy(action.destination)
    THEN action.destination
    ELSE IF action.action_type = Str("search") /\ query # ""
    THEN Str("https://duckduckgo.com/html/?q=" \o query)
    ELSE None

\* mutant: the number typed is taken as the index
index_of_same(k) == k

\* idx = int(choice) - 1
index_of(k) == k - 1

(***************************************************************************)
(* The state machine.                                                      *)
(*   content  the text handed to parse_document                            *)
(*   result   what parse_document answered: a NovaDocument or an exception *)
(*   surface  the screen: the lines of the latest render_document          *)
(*   menu     the list the latest collect_actions returned, and whether    *)
(*            collect_actions was called never, once or again ("none",     *)
(*            "once", "again")                                             *)
(*   tabs, active_tab_id   self.tabs and the position of the active tab    *)
(*   request_cache         the response cache of the network client        *)
(*   pc       where run_cli stands: "off" (not running), "start", "render" *)
(*            (top of the loop), "prompt" (at input) or "done"             *)
(*   calls    how many calls (of the runtime's methods, or of              *)
(*            _handle_user_choice by run_cli) were made so far             *)
(*   loaded, fetched, executed   ghosts of the latest step: the            *)
(*            load_document call, the fetch_url call and the               *)
(*            _handle_user_choice call it made, None if it made none       *)
(*   gui      the window: its load threads, the callbacks queued for the   *)
(*            UI thread, the tab frame and, as a ghost, the log of who     *)
(*            touched the frame                                            *)
(***************************************************************************)
NoResult == Return(None)
NoSurface == [of |-> "none", lines |-> <<>>]
NoMenu == [called |-> "none", list |-> <<>>]

HasDocument == ~result.raised /\ result.val # None

\* no window: the runtime runs without the GUI
\* StorageManager: the browsing history as the list of its entries, each a
\* dict of the heap `entries`, and the add_to_history calls in progress
NoStorage == [entries |-> <<>>, history |-> <<>>, threads |-> <<>>]

NoGui == [workers |-> <<>>, events |-> <<>>, frame |-> None, touched |-> <<>>]

\* NovaRuntime.__init__: one tab for the welcome page, nothing loaded
NovaRuntime(at) ==
    /\ tabs = <<Tab(current_url)>>
    /\ active_tab_id = 1
    /\ request_cache = <<>>
    /\ pc = at
    /\ calls = 0
    /\ loaded = None
    /\ fetched = None
    /\ executed = None
    /\ gui = NoGui
    /\ storage = NoStorage

Init ==
    /\ content \in InputTexts
    /\ result = NoResult
    /\ surface = NoSurface
    /\ menu = NoMenu
    /\ NovaRuntime("off")

\* doc = DocumentParser.parse_document(content)
ParseDocument ==
    /\ result = NoResult
    /\ result' = parse_document(content)
    /\ UNCHANGED <<content, surface, menu, runtime, gui>>

\* self.renderer.render_document(tab.document, tab)
RenderDocument ==
    /\ HasDocument
    /\ \E elapsed \in 0..MaxElapsed :
          result' = Return(render_document(result.val, elapsed))
    /\ surface' = [of |-> "tab", lines |-> render_lines(result.val)]
    /\ UNCHANGED <<content, menu, runtime, gui>>

\* the same renderer draws another document, the welcome page
RenderOther ==
    /\ surface' = [of |-> "other", lines |-> render_lines(WelcomeDocument)]
    /\ UNCHANGED <<content, result, menu, runtime, gui>>

\* actions = self.renderer.collect_actions(tab.document.layout)
CollectActions ==
    /\ HasDocument
    /\ menu' = [called |-> IF menu.called = "none" THEN "once" ELSE "again",
                list |-> collect_actions(result.val.layout)]
    /\ UNCHANGED <<content, result, surface, runtime, gui>>

Next ==
    \/ ParseDocument
    \/ RenderDocument
    \/ RenderOther
    \/ CollectActions

Spec == Init /\ [][Next]_vars

(***************************************************************************)
(* The renderer on headings and on texts to wrap: the same operations as   *)
(* in Spec, on documents of one heading or of one paragraph or text node.  *)
(***************************************************************************)
\* the documents are one paragraph or one text node, of the words above, or
\* one heading given the level 0, 1, 2 or 99, or none
InitText ==
    /\ content \in {Text(Document(Obj([type |-> Str(ty), text |-> Str(join(ws))]))) :
                        <<ty, ws>> \in {"paragraph", "text"} \X WordLists}
                   \cup {Text(Document(Obj([type |-> Str("heading"), text |-> Str("h"),
                                            level |-> Num(l)]))) : l \in {0, 1, 2, 99}}
                   \cup {Text(Document(Obj([type |-> Str("heading"), text |-> Str("h")])))}
    /\ result = NoResult
    /\ surface = NoSurface
    /\ menu = NoMenu
    /\ NovaRuntime("off")

SpecText == InitText /\ [][Next]_vars

(***************************************************************************)
(* The runtime as an object: create_tab and load_document called with any  *)
(* url, as the hosts call them.                                            *)
(***************************************************************************)
MaxCalls == 2

State == [tabs |-> tabs, active |-> active_tab_id, cache |-> request_cache]

\* the runtime after a load_document call l
Loaded(l) ==
    /\ tabs' = l.tabs
    /\ active_tab_id' = l.active
    /\ request_cache' = l.cache
    /\ loaded' = [url |-> l.url, target |-> l.target, ok |-> l.ok,
                  content |-> l.content]
    /\ fetched' = l.fetch

\* the urls the runtime is called with
LoadUrls ==
    {Str("https://httpbin.org/json"), Str("file:///welcome.nova"),
     Str("file:////welcome.nova"), Str("ftp://x"), Num(5)}

InitLoad ==
    /\ content = WelcomeText
    /\ result = NoResult
    /\ surface = NoSurface
    /\ menu = NoMenu
    /\ NovaRuntime("api")

\* self.runtime.create_tab(url)
CreateTab ==
    /\ pc = "api"
    /\ calls < MaxCalls
    /\ calls' = calls + 1
    /\ \E url \in LoadUrls :
          LET made == create_tab(tabs, url)
          IN  /\ tabs' = made.tabs
              /\ active_tab_id' = made.active
    /\ loaded' = None
    /\ fetched' = None
    /\ UNCHANGED <<storage, gui, content, result, surface, menu, request_cache, pc, executed>>

\* self.runtime.load_document(url)
LoadDocument ==
    /\ pc = "api"
    /\ calls < MaxCalls
    /\ calls' = calls + 1
    /\ \E url \in LoadUrls :
          \E env \in Envs(url, Bodies) :
             Loaded(load_document(url, 0, State, env))
    /\ UNCHANGED <<storage, gui, content, result, surface, menu, pc, executed>>

NextLoad ==
    \/ CreateTab
    \/ LoadDocument

SpecLoad == InitLoad /\ [][NextLoad]_vars

(***************************************************************************)
(* The CLI of the runtime: run_cli, one action per stretch between inputs. *)
(***************************************************************************)
MaxChoices == 2

\* the bodies served to the CLI
CliBodies == {PageText, Malformed}

InitRuntime ==
    /\ content = WelcomeText
    /\ result = NoResult
    /\ surface = NoSurface
    /\ menu = NoMenu
    /\ NovaRuntime("start")

\* a step that made no load and handled no choice
NoLoad == loaded' = None /\ fetched' = None

\* if not self.load_document(self.current_url): return
InitialLoad ==
    /\ pc = "start"
    /\ \E env \in Envs(current_url, CliBodies) :
          LET l == load_document(current_url, 0, State, env)
          IN  /\ Loaded(l)
              /\ pc' = IF l.ok THEN "render" ELSE "done"
    /\ UNCHANGED <<storage, gui, content, result, surface, menu, calls, executed>>

\* the top of the loop up to input(): render the document of the active
\* tab, collect its actions, show the menu
RenderAndCollect ==
    /\ pc = "render"
    /\ LET at == get_active_tab(tabs, active_tab_id)
       IN  IF at # 0 /\ Truthy(tabs[at].document)
           THEN \E elapsed \in 0..MaxElapsed :
                  LET doc == tabs[at].document
                      actions == collect_actions(doc.layout)
                  IN  /\ tabs' = [tabs EXCEPT ![at].document =
                                     render_document(doc, elapsed)]
                      /\ surface' = [of |-> "tab", lines |-> render_lines(doc)]
                      /\ menu' = [called |-> "once", list |-> actions]
                      /\ pc' = IF show_actions_menu_raises(actions)
                               THEN "done" ELSE "prompt"
           ELSE /\ pc' = "done"
                /\ UNCHANGED <<tabs, surface, menu>>
    /\ NoLoad
    /\ executed' = None
    /\ UNCHANGED <<storage, gui, content, result, active_tab_id, request_cache, calls>>

\* run_cli is at input() and reads one more choice
Prompted ==
    /\ pc = "prompt"
    /\ calls < MaxChoices
    /\ calls' = calls + 1

\* choice == 'quit'
ChooseQuit ==
    /\ Prompted
    /\ pc' = "done"
    /\ executed' = [choice |-> Str("quit"), action |-> None, handled |-> "none"]
    /\ NoLoad
    /\ UNCHANGED <<storage, gui, content, result, surface, menu, tabs, active_tab_id,
                   request_cache>>

\* choice == 'reload': self.load_document(tab.url, tab)
ChooseReload ==
    /\ Prompted
    /\ LET at == get_active_tab(tabs, active_tab_id)
       IN  \E env \in Envs(tabs[at].url, CliBodies) :
              Loaded(load_document(tabs[at].url, at, State, env))
    /\ pc' = "render"
    /\ executed' = [choice |-> Str("reload"), action |-> None, handled |-> "none"]
    /\ UNCHANGED <<storage, gui, content, result, surface, menu>>

\* choice in 'status', 'tabs', 'help': the handlers only print
ChooseShow ==
    /\ Prompted
    /\ \E choice \in {"status", "tabs", "help"} :
          executed' = [choice |-> Str(choice), action |-> None, handled |-> "none"]
    /\ pc' = "render"
    /\ NoLoad
    /\ UNCHANGED <<storage, gui, content, result, surface, menu, tabs, active_tab_id,
                   request_cache>>

\* the urls typed for a new tab
TypedUrls == {"", "httpbin.org/json", "file:////welcome.nova"}

\* choice == 'new': _create_new_tab
ChooseNew ==
    /\ Prompted
    /\ \E typed \in TypedUrls :
          IF typed # ""
          THEN LET url == Str(new_tab_url(typed))
                   made == create_tab(tabs, url)
               IN  \E env \in Envs(url, CliBodies) :
                      Loaded(load_document(url, 0,
                                [tabs |-> made.tabs, active |-> made.active,
                                 cache |-> request_cache], env))
          ELSE NoLoad /\ UNCHANGED <<tabs, active_tab_id, request_cache>>
    /\ pc' = "render"
    /\ executed' = [choice |-> Str("new"), action |-> None, handled |-> "none"]
    /\ UNCHANGED <<storage, gui, content, result, surface, menu>>

\* the numbers typed at the prompt
MaxChoice == 4

\* self._execute_action(action)
ExecuteAction(action) ==
    \E query \in IF action.action_type = Str("search") THEN {"", "q"} ELSE {""} :
       LET url == url_of(action, query)
       IN  IF url # None
           THEN \E env \in Envs(url, CliBodies) :
                   Loaded(load_document(url, 0, State, env))
           ELSE NoLoad /\ UNCHANGED <<tabs, active_tab_id, request_cache>>

\* choice.isdigit(): the action at idx is executed if 0 <= idx < len(actions)
ChooseNumber ==
    /\ Prompted
    /\ \E k \in 0..MaxChoice :
          LET idx == index_of(k)
          IN  IF 0 <= idx /\ idx < Len(menu.list)
              THEN /\ ExecuteAction(menu.list[idx + 1])
                   /\ executed' = [choice |-> Num(k), action |-> menu.list[idx + 1],
                                   handled |-> handled_as(menu.list[idx + 1])]
              ELSE /\ executed' = [choice |-> Num(k), action |-> None,
                                   handled |-> "invalid number"]
                   /\ NoLoad
                   /\ UNCHANGED <<tabs, active_tab_id, request_cache>>
    /\ pc' = "render"
    /\ UNCHANGED <<storage, gui, content, result, surface, menu>>

\* a choice of digits that int() rejects, such as a superscript two: the
\* ValueError leaves _handle_user_choice and ends run_cli
ChooseDigitNoInt ==
    /\ Prompted
    /\ pc' = "done"
    /\ executed' = [choice |-> Str("superscript two"), action |-> None,
                    handled |-> "raised"]
    /\ NoLoad
    /\ UNCHANGED <<storage, gui, content, result, surface, menu, tabs, active_tab_id,
                   request_cache>>

\* any other choice: "Unknown command"
ChooseOther ==
    /\ Prompted
    /\ pc' = "render"
    /\ executed' = [choice |-> Str("x"), action |-> None,
                    handled |-> "unknown command"]
    /\ NoLoad
    /\ UNCHANGED <<storage, gui, content, result, surface, menu, tabs, active_tab_id,
                   request_cache>>

NextRuntime ==
    \/ InitialLoad
    \/ RenderAndCollect
    \/ ChooseQuit
    \/ ChooseReload
    \/ ChooseShow
    \/ ChooseNew
    \/ ChooseNumber
    \/ ChooseDigitNoInt
    \/ ChooseOther

SpecRuntime == InitRuntime /\ [][NextRuntime]_vars

(***************************************************************************)
(* The GUI: load_url_in_tab runs on the UI thread and starts a load        *)
(* thread; the load thread calls the runtime and queues _gui_load_done     *)
(* with root.after; the UI thread runs the queued callbacks in order.      *)
(* A load thread is [url, pc, tab, ok] with pc "started", "created" (its   *)
(* runtime tab exists), "loaded" (load_document returned) or "posted".     *)
(* The frame is the tab frame: its url, its content widgets, the status    *)
(* line and the progress bar.  An entry of the ghost log `touched` names   *)
(* the thread that touched the frame, what it did, the load thread it did  *)
(* it for, and where that load thread stood.  The notebook holds the       *)
(* titles of the window's tabs and the index of the selected one; the      *)
(* frame is the one of the first tab.  The ghost log `clicks` holds the    *)
(* nodes whose widgets were clicked.                                       *)
(***************************************************************************)
MaxLoads == 2

\* the urls loaded in the window
GuiUrls == {"file:///welcome.nova", "https://httpbin.org/json"}

\* the bodies served to the window
GuiBodies == {Malformed}

Touch(thread, op, g, w) ==
    [thread |-> thread, op |-> op, worker |-> w, pc |-> g.workers[w].pc]

\* load_url_in_tab up to Thread(...).start()
load_url_in_tab(g, url) ==
    LET started == [g EXCEPT !.workers =
                       Append(@, [url |-> url, pc |-> "started", tab |-> 0,
                                  ok |-> FALSE])]
    IN  [started EXCEPT
           !.frame = [url |-> url, content |-> <<>>, status |-> "Loading",
                      progress |-> TRUE],
           \* self.tab_control.tab(self.tab_control.index("current"), ...)
           !.notebook.titles[g.notebook.current] = "Loading...",
           !.touched = Append(@, Touch("ui", "clear", started, Len(started.workers)))]

\* show_error(tab_frame, error_msg), run by a thread
show_error(g, call, error_msg, thread) ==
    [g EXCEPT !.frame.content = <<[kind |-> "error", what |-> Str(error_msg)]>>,
              !.frame.status = "Load failed",
              !.frame.progress = FALSE,
              !.touched = Append(@, Touch(thread, "show_error", g, call.worker))]

\* nova_tab.title[:20] + "..." if len(nova_tab.title) > 20 else nova_tab.title,
\* the first 20 characters tabulated for the long titles of the model
tab_title(title) ==
    CASE title = "Nova Browser - Production Ready" -> "Nova Browser - Produ..."
      [] title = "https://httpbin.org/json" -> "https://httpbin.org/..."
      [] OTHER -> title

\* update_tab_content(tab_frame, nova_tab, success), run by a thread; ts are
\* the tabs of the runtime, where the callback finds nova_tab
update_tab_content(g, ts, call, thread) ==
    IF call.ok /\ Truthy(ts[call.tab].document)
    THEN [g EXCEPT !.notebook.titles[g.notebook.current] =
                       tab_title(ts[call.tab].title.v),
                   !.frame.url = ts[call.tab].url.v,
                   !.frame.content =
                       Append(@, [kind |-> "document", what |-> ts[call.tab].url,
                                  tab |-> call.tab]),
                   !.frame.status = "Loaded",
                   !.frame.progress = FALSE,
                   !.touched = Append(@, Touch(thread, "render", g, call.worker))]
    ELSE [g EXCEPT !.frame.status = "Load failed",
                   !.frame.progress = FALSE,
                   !.touched = Append(@, Touch(thread, "status", g, call.worker))]

\* _gui_load_done(tab_frame, nova_tab, ok_or_exc), run by a thread
gui_load_done(g, ts, call, thread) ==
    IF call.tab # 0 /\ call.ok
    THEN update_tab_content(g, ts, call, thread)
    ELSE show_error(g, call, "Failed to load document", thread)

\* mutant: the load thread runs the callback itself
after_now(g, ts, call, thread) == gui_load_done(g, ts, call, thread)

\* self.root.after(0, self._gui_load_done, ...) called by a thread: the
\* callback is queued for the UI thread
after(g, ts, call, thread) == [g EXCEPT !.events = Append(@, call)]

InitGui ==
    /\ content = WelcomeText
    /\ result = NoResult
    /\ surface = NoSurface
    /\ menu = NoMenu
    /\ tabs = <<Tab(current_url)>>
    /\ active_tab_id = 1
    /\ request_cache = <<>>
    /\ pc = "gui"
    /\ calls = 0
    /\ loaded = None
    /\ fetched = None
    /\ executed = None
    /\ storage = NoStorage
    /\ gui = [workers |-> <<>>, events |-> <<>>, touched |-> <<>>,
              notebook |-> [titles |-> <<"New Tab">>, current |-> 1],
              clicks |-> <<>>,
              frame |-> [url |-> "", content |-> <<[kind |-> "welcome", what |-> None]>>,
                         status |-> "Ready", progress |-> FALSE]]

\* the UI thread: a click or the address bar calls load_url_in_tab
LoadUrlInTab ==
    /\ pc = "gui"
    /\ gui.notebook.current = 1
    /\ Len(gui.workers) < MaxLoads
    /\ \E url \in GuiUrls : gui' = load_url_in_tab(gui, url)
    /\ UNCHANGED <<content, result, surface, menu, runtime>>

\* a load thread: temp_tab = self.runtime.create_tab(url)
LoadThreadCreateTab ==
    /\ \E w \in 1..Len(gui.workers) :
          /\ gui.workers[w].pc = "started"
          /\ LET made == create_tab(tabs, Str(gui.workers[w].url))
             IN  /\ tabs' = made.tabs
                 /\ active_tab_id' = made.active
                 /\ gui' = [gui EXCEPT !.workers[w].pc = "created",
                                       !.workers[w].tab = made.active]
    /\ NoLoad
    /\ UNCHANGED <<storage, content, result, surface, menu, request_cache, pc, calls,
                   executed>>

\* a load thread: success = self.runtime.load_document(url, temp_tab)
LoadThreadLoad ==
    /\ \E w \in 1..Len(gui.workers) :
          /\ gui.workers[w].pc = "created"
          /\ \E env \in Envs(Str(gui.workers[w].url), GuiBodies) :
                LET l == load_document(Str(gui.workers[w].url), gui.workers[w].tab,
                                       State, env)
                IN  /\ Loaded(l)
                    /\ gui' = [gui EXCEPT !.workers[w].pc = "loaded",
                                          !.workers[w].ok = l.ok]
    /\ UNCHANGED <<storage, content, result, surface, menu, pc, calls, executed>>

\* a load thread: self.root.after(0, self._gui_load_done, tab_frame,
\* temp_tab, success), its last statement
LoadThreadAfter ==
    /\ \E w \in 1..Len(gui.workers) :
          /\ gui.workers[w].pc = "loaded"
          /\ gui' = [after(gui, tabs,
                           [worker |-> w, tab |-> gui.workers[w].tab,
                            ok |-> gui.workers[w].ok], "load_thread")
                       EXCEPT !.workers[w].pc = "posted"]
    /\ UNCHANGED <<content, result, surface, menu, runtime>>

\* the UI thread runs the next queued callback
GuiLoadDone ==
    /\ gui.events # <<>>
    /\ gui' = gui_load_done([gui EXCEPT !.events = Tail(@)], tabs,
                            Head(gui.events), "ui")
    /\ UNCHANGED <<content, result, surface, menu, runtime>>

NextGui ==
    \/ LoadUrlInTab
    \/ LoadThreadCreateTab
    \/ LoadThreadLoad
    \/ LoadThreadAfter
    \/ GuiLoadDone

SpecGui == InitGui /\ [][NextGui]_vars

(***************************************************************************)
(* The window with its notebook: tabs are opened and selected, and a link  *)
(* of a rendered document is clicked.                                      *)
(***************************************************************************)
MaxGuiTabs == 2
MaxClicks == 1

\* handle_action(action, tab_data); open_search and show_browser_stats open
\* dialogs and leave the tab as it is
handle_action(g, action) ==
    IF ~Truthy(action)
    THEN g
    ELSE IF action.action_type = Str("navigate") /\ Truthy(action.destination)
    THEN load_url_in_tab(g, action.destination.v)
    ELSE g

\* the link nodes of a document: render_node binds a click on each of them
RECURSIVE link_nodes(_)
link_nodes(node) ==
    (IF node.node_type = Str("link") THEN {node} ELSE {})
    \cup (IF Truthy(node.children)
         THEN UNION {link_nodes(node.children.v[i]) : i \in 1..Len(node.children.v)}
         ELSE {})

\* new_tab: create_browser_tab() adds a tab and selects it
NewTab ==
    /\ pc = "gui"
    /\ Len(gui.notebook.titles) < MaxGuiTabs
    /\ gui' = [gui EXCEPT !.notebook.titles = Append(@, "New Tab"),
                          !.notebook.current = Len(gui.notebook.titles) + 1]
    /\ UNCHANGED <<content, result, surface, menu, runtime>>

\* the user selects another tab of the notebook
SelectTab ==
    /\ pc = "gui"
    /\ \E i \in 1..Len(gui.notebook.titles) :
          /\ i # gui.notebook.current
          /\ gui' = [gui EXCEPT !.notebook.current = i]
    /\ UNCHANGED <<content, result, surface, menu, runtime>>

\* <Button-1> on the label of a link of a document shown in the tab:
\* lambda e: self.handle_action(node.action, tab_data)
ClickLink ==
    /\ pc = "gui"
    /\ gui.notebook.current = 1
    /\ Len(gui.workers) < MaxLoads
    /\ Len(gui.clicks) < MaxClicks
    /\ \E i \in 1..Len(gui.frame.content) :
          /\ gui.frame.content[i].kind = "document"
          /\ \E node \in link_nodes(tabs[gui.frame.content[i].tab].document.layout) :
                gui' = [handle_action(gui, node.action)
                          EXCEPT !.clicks = Append(@, node)]
    /\ UNCHANGED <<content, result, surface, menu, runtime>>

NextWindow ==
    \/ LoadUrlInTab
    \/ LoadThreadCreateTab
    \/ LoadThreadLoad
    \/ LoadThreadAfter
    \/ GuiLoadDone
    \/ NewTab
    \/ SelectTab
    \/ ClickLink

SpecWindow == InitGui /\ [][NextWindow]_vars

(***************************************************************************)
(* StorageManager.add_to_history, called by load_document on the thread of *)
(* each load: the GUI runs one load thread per load and the calls take no  *)
(* lock, so the statements of the calls in progress interleave.  An entry  *)
(* is a dict: the list holds references into the heap `entries`, and       *)
(* `existing` of a call is such a reference.  The title and the timestamp  *)
(* of an entry are written and read by nothing modelled here.  A call is   *)
(* [url, pc, i, existing, count, before, exc]: i is the position of the    *)
(* loop, count the visit_count read by `+= 1`, and before, a ghost, the    *)
(* visit_count of the url's entry when the call began.                     *)
(***************************************************************************)
MaxAdds == 2

\* the visit_count of the entry of the url in the history, 0 when it has none
visits(st, url) ==
    IF \E i \in 1..Len(st.history) : st.entries[st.history[i]].url = url
    THEN st.entries[st.history[CHOOSE i \in 1..Len(st.history) :
                                  st.entries[st.history[i]].url = url]].visit_count
    ELSE 0

\* the history read from the history file has no url twice
InitHistory ==
    /\ content = WelcomeText
    /\ result = NoResult
    /\ surface = NoSurface
    /\ menu = NoMenu
    /\ tabs = <<Tab(current_url)>>
    /\ active_tab_id = 1
    /\ request_cache = <<>>
    /\ pc = "gui"
    /\ calls = 0
    /\ loaded = None
    /\ fetched = None
    /\ executed = None
    /\ gui = NoGui
    /\ \E h \in {<<>>,
                 <<[url |-> "file:///welcome.nova", visit_count |-> 1]>>,
                 <<[url |-> "file:///welcome.nova", visit_count |-> 2],
                   [url |-> "https://httpbin.org/json", visit_count |-> 1]>>} :
          storage = [entries |-> h, history |-> [i \in 1..Len(h) |-> i],
                     threads |-> <<>>]

\* a load thread enters add_to_history(url, title): the entry dict is built
AddToHistory ==
    /\ Len(storage.threads) < MaxAdds
    /\ \E url \in {"file:///welcome.nova", "https://httpbin.org/json"} :
          storage' = [storage EXCEPT !.threads =
                         Append(@, [url |-> url, pc |-> "for", i |-> 1,
                                    existing |-> 0, count |-> 0,
                                    before |-> visits(storage, url),
                                    exc |-> FALSE])]
    /\ UNCHANGED <<content, result, surface, menu, tabs, active_tab_id,
                   request_cache, pc, calls, loaded, fetched, executed, gui>>

\* the next statement of a call in progress, by its position:
\*  "for"      for i, existing in enumerate(self.history):
\*                 if existing['url'] == url
\*  "read"     existing['visit_count'] += 1, the value is read
\*  "write"    existing['visit_count'] += 1, the value plus one is stored
\*  "pop"      self.history.pop(i), IndexError when the list became shorter
\*  "reappend" self.history.append(existing)
\*  "append"   self.history.append(entry), the loop found no entry of the url
\*  "save"     self.save(): the history is cut to its last 5000 entries and
\*             written; an exception of the writing is raised again
AddToHistoryStep ==
    /\ \E t \in 1..Len(storage.threads) :
          LET th == storage.threads[t]
              h == storage.history
          IN  \E save_ok \in IF th.pc = "save" THEN BOOLEAN ELSE {TRUE} :
              /\ th.pc # "done"
              /\ storage' =
                CASE th.pc = "for" ->
                       IF th.i > Len(h)
                       THEN [storage EXCEPT !.threads[t].pc = "append"]
                       ELSE IF storage.entries[h[th.i]].url = th.url
                       THEN [storage EXCEPT !.threads[t].pc = "read",
                                            !.threads[t].existing = h[th.i]]
                       ELSE [storage EXCEPT !.threads[t].i = th.i + 1]
                  [] th.pc = "read" ->
                       [storage EXCEPT
                          !.threads[t].pc = "write",
                          !.threads[t].count = storage.entries[th.existing].visit_count]
                  [] th.pc = "write" ->
                       [storage EXCEPT
                          !.threads[t].pc = "pop",
                          !.entries[th.existing].visit_count = th.count + 1]
                  [] th.pc = "pop" ->
                       IF th.i > Len(h)
                       THEN [storage EXCEPT !.threads[t].pc = "done",
                                            !.threads[t].exc = TRUE]
                       ELSE [storage EXCEPT
                               !.threads[t].pc = "reappend",
                               !.history = SubSeq(h, 1, th.i - 1)
                                           \o SubSeq(h, th.i + 1, Len(h))]
                  [] th.pc = "reappend" ->
                       [storage EXCEPT !.threads[t].pc = "save",
                                       !.history = Append(h, th.existing)]
                  [] th.pc = "append" ->
                       [storage EXCEPT
                          !.threads[t].pc = "save",
                          !.entries = Append(@, [url |-> th.url, visit_count |-> 1]),
                          !.history = Append(h, Len(storage.entries) + 1)]
                  [] th.pc = "save" ->
                       [storage EXCEPT
                          !.threads[t].pc = "done",
                          !.threads[t].exc = ~save_ok,
                          !.history = IF Len(h) > 5000
                                      THEN SubSeq(h, Len(h) - 5000 + 1, Len(h))
                                      ELSE h]
    /\ UNCHANGED <<content, result, surface, menu, tabs, active_tab_id,
                   request_cache, pc, calls, loaded, fetched, executed, gui>>

NextHistory ==
    \/ AddToHistory
    \/ AddToHistoryStep

SpecHistory == InitHistory /\ [][NextHistory]_vars

(***************************************************************************)
(* Vocabulary of the claims.                                               *)
(***************************************************************************)
Parsed == result # NoResult
Collected == HasDocument /\ menu.called # "none"
Layout == result.val.layout

\* the children of a node, none when the field is absent
Kids(node) == IF node.children = None THEN <<>> ELSE node.children.v

RECURSIVE NodeAt(_, _)
NodeAt(node, path) ==
    IF path = <<>> THEN node ELSE NodeAt(Kids(node)[Head(path)], Tail(path))

RECURSIVE PathsOf(_, _)
PathsOf(node, path) ==
    {path} \cup UNION {PathsOf(Kids(node)[i], Append(path, i)) : i \in 1..Len(Kids(node))}

RECURSIVE Concat(_)
Concat(seqs) == IF seqs = <<>> THEN <<>> ELSE Head(seqs) \o Concat(Tail(seqs))

\* a field counts as given: when it is present (strict), or when it is
\* present and not the empty string
Given(x, strict) == x # None /\ (strict \/ x # Str(""))

Controllable(node) ==
    /\ node.node_type \in {Str("audio"), Str("video")}
    /\ node.controls \in {None, Bool(TRUE)}

FormSubmit(id) == [Action(Str("form_submit")) EXCEPT !.form_id = id]
MediaControl(id, command) ==
    [Action(Str("media_control")) EXCEPT !.media_id = id, !.command = Str(command)]
Navigate(destination) == [Action(Str("navigate")) EXCEPT !.destination = destination]

MediaControls(id) ==
    <<MediaControl(id, "play"), MediaControl(id, "pause"), MediaControl(id, "stop")>>

\* what one node contributes by itself, in the order of the claim
OwnActions(node, strict) ==
    (IF node.action # None THEN <<node.action>> ELSE <<>>)
    \o (IF node.node_type = Str("form") /\ Given(node.id, strict)
        THEN <<FormSubmit(node.id)>> ELSE <<>>)
    \o (IF Controllable(node) /\ Given(node.id, strict)
        THEN MediaControls(node.id) ELSE <<>>)
    \o (IF node.node_type = Str("link") /\ Given(node.destination, strict)
        THEN <<Navigate(node.destination)>> ELSE <<>>)

\* the pre-order, left-to-right walk
RECURSIVE PreOrder(_, _)
PreOrder(node, strict) ==
    OwnActions(node, strict)
    \o Concat([i \in 1..Len(Kids(node)) |-> PreOrder(Kids(node)[i], strict)])

\* p comes before q in pre-order: p is a prefix of q, or p branches off to
\* an earlier sibling
RECURSIVE Before(_, _)
Before(p, q) ==
    \/ p = <<>>
    \/ /\ q # <<>>
       /\ \/ Head(p) < Head(q)
          \/ Head(p) = Head(q) /\ Before(Tail(p), Tail(q))

Owners == ActionOwners(Layout)

\* the owners of the collected actions never step back in pre-order
OwnersInPreOrder ==
    LET owners == Owners
    IN  \A i \in 1..Len(owners) : \A j \in i..Len(owners) : Before(owners[i], owners[j])

\* of the collected entries, those that the visit of the node at path
\* appended, in order
OwnEntries(entries, path) ==
    LET IsOwn(e) == e.at = path
    IN  SelectSeq(entries, IsOwn)

\* those of them that the collection synthesized, by action type
Synthesized(entries, path, ty) ==
    LET own == OwnEntries(entries, path)
        made == IF NodeAt(Layout, path).action # None THEN Tail(own) ELSE own
        IsTy(e) == e.act.action_type = Str(ty)
        sel == SelectSeq(made, IsTy)
    IN  [i \in 1..Len(sel) |-> sel[i].act]

(***************************************************************************)
(* C1.  collect_actions returns the pre-order, left-to-right walk: each    *)
(* node gives its explicit action, a form_submit (a form with an id), its  *)
(* media_control actions (a controllable audio/video with an id), a        *)
(* navigate (a link with a destination), then its children's actions; a    *)
(* node's own actions precede its descendants', an earlier sibling's       *)
(* subtree precedes a later one's.                                         *)
(***************************************************************************)
\* C1 as stated: "with an id", "with a destination" read as the field being
\* present
C1_WalkOrderAsStated ==
    Collected => /\ menu.list = PreOrder(Layout, TRUE)
                 /\ OwnersInPreOrder

\* C1 amended: the id and the destination are present and not empty
C1_WalkOrder ==
    Collected => /\ menu.list = PreOrder(Layout, FALSE)
                 /\ OwnersInPreOrder

\* a collected tree where a node with own actions has an earlier child with
\* a grandchild and a later child, all with actions of their own
C1_Witness ==
    /\ Collected
    /\ Len(Kids(Layout)) = 2
    /\ Len(Kids(Kids(Layout)[1])) = 1
    /\ \A p \in PathsOf(Layout, <<>>) :
          Len(OwnEntries(collect_entries(Layout), p)) >= 2

(***************************************************************************)
(* C2.  An audio or video node with an id gives exactly three              *)
(* media_control actions, mediaId its id, commands play, pause, stop in    *)
(* that order, when controls is true or absent; none when controls is      *)
(* false or the node has no id.                                            *)
(***************************************************************************)
MediaRule(strict) ==
    LET entries == collect_entries(Layout)
    IN
    \A p \in PathsOf(Layout, <<>>) :
       LET node == NodeAt(Layout, p)
       IN  node.node_type \in {Str("audio"), Str("video")} =>
              Synthesized(entries, p, "media_control") =
                 IF Given(node.id, strict) /\ node.controls \in {None, Bool(TRUE)}
                 THEN MediaControls(node.id)
                 ELSE <<>>

\* C2 as stated: "has an id" read as the field being present
C2_MediaControlsAsStated == Collected => MediaRule(TRUE)

\* C2 amended: the id is present and not empty
C2_MediaControls == Collected => MediaRule(FALSE)

\* an audio node with an id and controls true, with its three actions listed
C2_Witness ==
    /\ Collected
    /\ Layout.node_type = Str("audio")
    /\ Layout.id = Str("f1")
    /\ Layout.controls = Bool(TRUE)
    /\ Layout.action = None
    /\ Len(menu.list) = 3

(***************************************************************************)
(* C3.  A link node gives a navigate action carrying its destination when  *)
(* the destination is present and none when it is absent; a link with an   *)
(* explicit action and a destination gives exactly two actions of its own, *)
(* the explicit one first and the navigate second.                         *)
(***************************************************************************)
LinkRule(strict) ==
    LET entries == collect_entries(Layout)
    IN
    \A p \in PathsOf(Layout, <<>>) :
       LET node == NodeAt(Layout, p)
           own == OwnEntries(entries, p)
       IN  node.node_type = Str("link") =>
              /\ Synthesized(entries, p, "navigate") =
                    IF Given(node.destination, strict)
                    THEN <<Navigate(node.destination)>>
                    ELSE <<>>
              /\ (node.action # None /\ Given(node.destination, strict)) =>
                    /\ Len(own) = 2
                    /\ own[1].act = node.action
                    /\ own[2].act = Navigate(node.destination)

\* C3 as stated: "present" read as the field being there
C3_LinkNavigateAsStated == Collected => LinkRule(TRUE)

\* C3 amended: the destination is present and not empty
C3_LinkNavigate == Collected => LinkRule(FALSE)

\* a link with an explicit action and a destination, under another node
C3_Witness ==
    /\ Collected
    /\ \E p \in PathsOf(Layout, <<>>) :
          /\ p # <<>>
          /\ NodeAt(Layout, p).node_type = Str("link")
          /\ NodeAt(Layout, p).action # None
          /\ NodeAt(Layout, p).destination = Str("u")
          /\ Len(OwnEntries(collect_entries(Layout), p)) = 2

(***************************************************************************)
(* C4.  For a form with id "f1" over two buttons, exactly one of them with *)
(* an explicit action, collect_actions returns exactly two actions.        *)
(***************************************************************************)
IsFormOfTwoButtons ==
    /\ HasDocument
    /\ Layout.node_type = Str("form")
    /\ Layout.id = Str("f1")
    /\ Layout.action = None
    /\ Len(Kids(Layout)) = 2
    /\ \A i \in 1..2 : /\ Kids(Layout)[i].node_type = Str("button")
                       /\ Kids(Layout)[i].children = None
    /\ \E i \in 1..2 : /\ Kids(Layout)[i].action # None
                       /\ Kids(Layout)[3 - i].action = None

ButtonAction ==
    LET i == CHOOSE k \in 1..2 : Kids(Layout)[k].action # None
    IN  Kids(Layout)[i].action

\* C4 as stated: the button's explicit action, then the form_submit
C4_ButtonThenFormSubmit ==
    (Collected /\ IsFormOfTwoButtons) =>
        menu.list = <<ButtonAction, FormSubmit(Str("f1"))>>

\* C4 amended: the form_submit of the form, then the button's explicit
\* action
C4_FormSubmitThenButton ==
    (Collected /\ IsFormOfTwoButtons) =>
        menu.list = <<FormSubmit(Str("f1")), ButtonAction>>

C4_Witness ==
    /\ Collected
    /\ IsFormOfTwoButtons
    /\ Len(menu.list) = 2

(***************************************************************************)
(* C5.  The action catalog corresponds to what the text render pass shows: *)
(* every collected action belongs to a node that render_document displays, *)
(* the actions come in the order in which their nodes are displayed, and   *)
(* no action is listed for a node that rendering skips.                    *)
(***************************************************************************)
\* the nodes the screen displays, in the order of the lines
Displayed ==
    Concat([i \in 1..Len(surface.lines) |-> surface.lines[i].shows])

FirstShown(p) == Least({k \in 1..Len(Displayed) : Displayed[k] = p})

C5_CatalogMatchesRender ==
    (Collected /\ surface.of = "tab") =>
        LET owners == Owners
            shown == Displayed
        IN  /\ \A i \in 1..Len(owners) : \E k \in 1..Len(shown) : shown[k] = owners[i]
            /\ \A i \in 1..Len(owners) : \A j \in i..Len(owners) :
                  FirstShown(owners[i]) <= FirstShown(owners[j])

IsObject == content.wf /\ content.val.t = "obj"

VersionOk ==
    "version" \in DOMAIN content.val.v /\ content.val.v["version"] = Str("1.0")

UnsupportedVersion == Raise("ValueError", "Only Nova Document version 1.0 supported")

C7_UnsupportedVersion ==
    Parsed => /\ (IsObject /\ ~VersionOk) => result = UnsupportedVersion
              /\ HasDocument => result.val.version = Str("1.0")

\* version "2.0" over a valid layout, refused
C7_Witness ==
    /\ Parsed
    /\ IsObject
    /\ get(content.val, "version", None) = Str("2.0")
    /\ get(content.val, "layout", None) = Obj([type |-> Str("text")])
    /\ result.raised

(***************************************************************************)
(* C8.  With version "1.0" and a layout key, parse_document fails with a   *)
(* schema error and returns no document whenever some node of the layout,  *)
(* at any depth, is no object, lacks "type", has an action that is no      *)
(* object or children that are no array.                                   *)
(***************************************************************************)
SchemaMessages ==
    {"Document must be a JSON object", "Document must contain 'layout'",
     "Layout node must be an object", "Layout node must have 'type'",
     "Action must be an object", "Children must be an array"}

IsSchemaError(r) == r.raised /\ r.exc = "ValueError" /\ r.msg \in SchemaMessages

\* the depth of the first offending node of a raw layout, 0 when there is
\* none: the root has depth 1
RECURSIVE OffenceDepth(_)
OffenceDepth(x) ==
    IF \/ x.t # "obj"
       \/ "type" \notin DOMAIN x.v
       \/ ("action" \in DOMAIN x.v /\ x.v["action"].t # "obj")
       \/ ("children" \in DOMAIN x.v /\ x.v["children"].t # "arr")
    THEN 1
    ELSE LET kids == IF "children" \in DOMAIN x.v THEN x.v["children"].v ELSE <<>>
             deep == {OffenceDepth(kids[i]) : i \in 1..Len(kids)} \ {0}
         IN  IF deep = {} THEN 0 ELSE 1 + Least(deep)

HasLayout == IsObject /\ VersionOk /\ "layout" \in DOMAIN content.val.v

C8_SchemaErrorAtAnyDepth ==
    (Parsed /\ HasLayout /\ OffenceDepth(content.val.v["layout"]) > 0) =>
        IsSchemaError(result)

\* the only offending node is a grandchild of the root
C8_Witness ==
    /\ Parsed
    /\ HasLayout
    /\ OffenceDepth(content.val.v["layout"]) = 3
    /\ IsSchemaError(result)

(***************************************************************************)
(* C9.  parse_document fails with a schema error and returns no document   *)
(* when the parsed top-level value is no object, and when the top-level    *)
(* object has version "1.0" but no layout key.                             *)
(***************************************************************************)
C9_TopLevelSchemaError ==
    Parsed =>
        /\ (content.wf /\ content.val.t # "obj") =>
               result = Raise("ValueError", "Document must be a JSON object")
        /\ (IsObject /\ VersionOk /\ "layout" \notin DOMAIN content.val.v) =>
               result = Raise("ValueError", "Document must contain 'layout'")
        /\ (content.wf /\ ~HasLayout /\ (IsObject => VersionOk)) => IsSchemaError(result)

\* {"version": "1.0"} alone, refused
C9_Witness ==
    /\ Parsed
    /\ content = Text(Obj([version |-> Str("1.0")]))
    /\ IsSchemaError(result)

(***************************************************************************)
(* C10.  A text that is not well-formed JSON makes parse_document fail     *)
(* with an error of a kind of its own, which the caller can tell apart by  *)
(* kind from the unsupported-version and the schema failures.              *)
(***************************************************************************)
\* the kind of a failure is the exception class the caller catches it by
Kind(r) == r.exc

C10_SyntaxKindOfItsOwn ==
    (Parsed /\ ~content.wf) =>
        /\ result.raised
        /\ Kind(result) # Kind(UnsupportedVersion)
        /\ \A m \in SchemaMessages : Kind(result) # Kind(Raise("ValueError", m))
        /\ Kind(result) # Kind(parse_document(Text(Str("x"))))

(***************************************************************************)
(* C11.  Parsing is permissive and lossless for the optional fields of a   *)
(* layout node: the parsed field is absent when the key is absent and is   *)
(* the input value unchanged when the key is present, whatever its type,   *)
(* and no such value makes the parse fail; serializing the parsed tree and *)
(* parsing it again gives an equal tree.                                   *)
(***************************************************************************)
\* the parsed node carries every optional key of the raw node, and so do
\* its children
RECURSIVE Lossless(_, _)
Lossless(raw, node) ==
    /\ node.node_type = raw.v["type"]
    /\ \A k \in OptionalKeys :
          node[k] = IF k \in DOMAIN raw.v THEN raw.v[k] ELSE None
    /\ ("children" \in DOMAIN raw.v) = (node.children # None)
    /\ "children" \in DOMAIN raw.v =>
          /\ Len(Kids(node)) = Len(raw.v["children"].v)
          /\ \A i \in 1..Len(Kids(node)) : Lossless(raw.v["children"].v[i], Kids(node)[i])

ActionKeys ==
    {"key", "value", "destination", "input_id", "media_id", "command", "form_id",
     "extension_id", "download_url", "bookmark_url", "search_query", "theme_name"}

\* the JSON object of an action: its type and the payload fields it has
SerializeAction(a) ==
    Obj(("type" :> a.action_type) @@ [k \in {x \in ActionKeys : a[x] # None} |-> a[k]])

\* the JSON object of a node: its type and the fields it has
RECURSIVE Serialize(_)
Serialize(node) ==
    Obj(("type" :> node.node_type)
        @@ [k \in {x \in OptionalKeys : node[x] # None} |-> node[k]]
        @@ (IF node.action # None
            THEN "action" :> SerializeAction(node.action) ELSE <<>>)
        @@ (IF node.children # None
            THEN "children" :> Arr([i \in 1..Len(Kids(node)) |-> Serialize(Kids(node)[i])])
            ELSE <<>>))

C11_LosslessOptionalFields ==
    (Parsed /\ HasLayout /\ OffenceDepth(content.val.v["layout"]) = 0) =>
        /\ HasDocument
        /\ Lossless(content.val.v["layout"], Layout)
        /\ parse_layout_node(Serialize(Layout)) = Return(Layout)

\* a heading whose level is a string and one whose level is false, parsed
\* with the level as given
C11_Witness ==
    /\ HasDocument
    /\ Layout.node_type = Str("heading")
    /\ Layout.level \in {Str("x"), Bool(FALSE)}
    /\ content.val.v["layout"].v["level"] = Layout.level
    /\ Layout.text = None

(***************************************************************************)
(* C12.  Render-error isolation: when rendering one node raises, the       *)
(* surface shows one error marker for that node and every sibling of the   *)
(* node, before and after it, is still rendered.                           *)
(***************************************************************************)
Rendered == HasDocument /\ surface.of = "tab"

\* kinds whose renderer hands each child to _render_node
Descends(node) == node.node_type \in {Str("column"), Str("form"), Str("grid")}

\* the node at path is one that rendering is to reach: every ancestor
\* renders its children
RECURSIVE Reach(_, _)
Reach(node, path) ==
    \/ path = <<>>
    \/ Descends(node) /\ Reach(Kids(node)[Head(path)], Tail(path))

\* the renderer of the node at path raises
Raises(path) == render_by_type(NodeAt(Layout, path), Spaces(0), path).raised

\* rendered by itself, the node at path prints something
Prints(path) == render_node(NodeAt(Layout, path), Num(0), path).lines # <<>>

\* the lines of the surface that the renderers of the node at path printed
\* (the lines of the header belong to no node)
LinesOf(path) ==
    LET IsOf(l) == l.node = path /\ l.kind \notin {"chrome", "title", "description", "rule"}
    IN  SelectSeq(surface.lines, IsOf)

ErrorMarkers(path) ==
    LET IsError(l) == l.kind = "error"
    IN  Len(SelectSeq(LinesOf(path), IsError))

Siblings(path) ==
    LET up == SubSeq(path, 1, Len(path) - 1)
    IN  {Append(up, i) : i \in 1..Len(Kids(NodeAt(Layout, up)))} \ {path}

C12_RenderErrorIsolated ==
    Rendered =>
        \A q \in PathsOf(Layout, <<>>) :
           (Reach(Layout, q) /\ Raises(q)) =>
              /\ ErrorMarkers(q) = 1
              /\ q # <<>> => \A p \in Siblings(q) : Prints(p) => LinesOf(p) # <<>>

(***************************************************************************)
(* C13.  Rendering a node whose type is none of the recognized kinds never *)
(* fails: it outputs the text of the node when the text is present and     *)
(* nothing at all, no line, when the text is absent.                       *)
(***************************************************************************)
RecognizedKinds ==
    {Str(ty) : ty \in {"heading", "paragraph", "text", "button", "link", "input",
                       "form", "table", "code", "image", "audio", "video",
                       "column", "row", "grid"}}

C13_GenericFallback ==
    Rendered =>
        \A p \in PathsOf(Layout, <<>>) :
           LET node == NodeAt(Layout, p)
               lines == LinesOf(p)
           IN  (Reach(Layout, p) /\ node.node_type \notin RecognizedKinds) =>
                  /\ ErrorMarkers(p) = 0
                  /\ node.text = None => lines = <<>>
                  /\ node.text # None => Len(lines) = 1 /\ lines[1].kind = "generic"

(***************************************************************************)
(* C16.  A document is never mutated after parse_document returned it:     *)
(* render_document and collect_actions leave every field of the document   *)
(* and every node of its layout unchanged.                                 *)
(***************************************************************************)
C16_DocumentNeverMutated ==
    [][HasDocument => result' = result]_vars

(***************************************************************************)
(* C20.  The text rendering of a column with children renders every child, *)
(* in array order, at the indent of the column itself, for columns at any  *)
(* depth, the root included.                                               *)
(***************************************************************************)
\* the indent that the node at path is to be rendered at, the root at `at`:
\* the children of a form two further in, those of a grid at 0, those of a
\* column at the indent of the column
RECURSIVE IndentOf(_, _, _)
IndentOf(node, path, at) ==
    IF path = <<>>
    THEN at
    ELSE IndentOf(Kids(node)[Head(path)], Tail(path),
                  CASE node.node_type = Str("form") -> at + 2
                    [] node.node_type = Str("grid") -> 0
                    [] OTHER -> at)

IsPrefix(p, q) == Len(p) <= Len(q) /\ SubSeq(q, 1, Len(p)) = p

\* the positions on the surface of the lines of the subtree at path
PositionsOf(path) ==
    {k \in 1..Len(surface.lines) :
        /\ surface.lines[k].kind \notin {"chrome", "title", "description", "rule"}
        /\ IsPrefix(path, surface.lines[k].node)}

C20_ColumnRendersChildren ==
    Rendered =>
        \A p \in PathsOf(Layout, <<>>) :
           LET node == NodeAt(Layout, p)
               n == Len(Kids(node))
           IN  (Reach(Layout, p) /\ node.node_type = Str("column") /\ n > 0) =>
                  /\ \A i \in 1..n :
                        Prints(Append(p, i)) =>
                           /\ LinesOf(Append(p, i)) # <<>>
                           /\ \A k \in 1..Len(LinesOf(Append(p, i))) :
                                 LinesOf(Append(p, i))[k].indent = IndentOf(Layout, p, 0)
                  /\ \A i \in 1..n : \A j \in (i + 1)..n :
                        \A a \in PositionsOf(Append(p, i)) :
                           \A b \in PositionsOf(Append(p, j)) : a < b

(***************************************************************************)
(* C14: after load_document returns, with True or with False, for any url  *)
(* and any fetched content, the document of the tab it loaded into is a    *)
(* validated document of version "1.0" with a root layout node: it is what *)
(* the validating parser answers for the document's own text.              *)
(***************************************************************************)
ValidDocument(doc) ==
    /\ doc.t = "NovaDocument"
    /\ doc.version = Str("1.0")
    /\ doc.layout.t = "LayoutNode"
    /\ doc.raw_content # None
    /\ parse_document(doc.raw_content) =
          Return([doc EXCEPT !.metrics = PerformanceMetrics(0)])

C14_LoadLeavesValidDocument ==
    loaded # None => ValidDocument(tabs[loaded.target].document)

\* a load of malformed content returned False and left the error document
C14_Witness ==
    /\ loaded # None
    /\ ~loaded.ok
    /\ ~loaded.content.raised
    /\ loaded.content.val = Malformed
    /\ ValidDocument(tabs[loaded.target].document)
    /\ tabs[loaded.target].document.metadata =
          Obj([title |-> Str("Error Loading Page"),
               description |-> Str("The requested document could not be loaded")])

(***************************************************************************)
(* C15: fetch_url has exactly two outcomes: it returns the body of a       *)
(* successful request (made now, or made earlier and still cached), or it  *)
(* raises a network error; when the request fails it returns no text.      *)
(***************************************************************************)
C15_FetchReturnsBodyOrRaises ==
    fetched # None =>
        IF fetched.hit \/ fetched.net.ok
        THEN /\ ~fetched.ret.raised
             /\ fetched.ret.val \in Bodies
        ELSE fetched.ret.raised

(***************************************************************************)
(* C17: in the CLI loop, entering a number k with 1 <= k <= N executes     *)
(* exactly the k-th action of the sequence collect_actions returns for the *)
(* document just rendered (a navigation loads that action's destination);  *)
(* entering 0 or a number greater than N executes no action, leaves tabs,  *)
(* active tab and documents unchanged, and the loop continues.             *)
(***************************************************************************)
\* the step handles a number typed at the prompt
PicksNumber == pc = "prompt" /\ executed' # None /\ executed'.choice.t = "num"

C17_NumberPicksKthAction ==
    [][PicksNumber =>
          LET k == executed'.choice.v
              shown == collect_actions(tabs[active_tab_id].document.layout)
          IN  IF 1 <= k /\ k <= Len(shown)
              THEN /\ executed'.action = shown[k]
                   /\ executed'.handled = handled_as(shown[k])
                   /\ executed'.handled = "navigate" =>
                         loaded' # None /\ loaded'.url = shown[k].destination
                   /\ executed'.handled \in {"show_stats", "not implemented"} =>
                         loaded' = None /\ tabs' = tabs
                   /\ pc' = "render"
              ELSE /\ executed'.action = None
                   /\ loaded' = None
                   /\ tabs' = tabs
                   /\ active_tab_id' = active_tab_id
                   /\ pc' = "render"]_vars

\* the second of several actions shown was picked and its destination loaded
C17_Witness ==
    /\ executed # None
    /\ executed.choice = Num(2)
    /\ Len(menu.list) > 2
    /\ executed.action = menu.list[2]
    /\ menu.list[1] # menu.list[2]
    /\ loaded # None
    /\ loaded.url = menu.list[2].destination

(***************************************************************************)
(* C18: an explicit action whose type is none of the recognized action     *)
(* types is preserved: the parsed node carries it with its type and every  *)
(* payload field of the input, collect_actions lists it for its node, and  *)
(* when the user selects it the host handles nothing: the tab list, the    *)
(* active tab and every tab's url, document and history stay as they are.  *)
(***************************************************************************)
RecognizedActionTypes ==
    {Str("navigate"), Str("store"), Str("media_control"), Str("search"),
     Str("set_theme"), Str("show_stats"), Str("show_permissions"),
     Str("show_history"), Str("clear_cache"), Str("form_submit")}

\* the action objects of unrecognized type in a raw layout, with their paths
RECURSIVE UnrecognizedActions(_, _)
UnrecognizedActions(raw, path) ==
    (IF /\ "action" \in DOMAIN raw.v
        /\ "type" \in DOMAIN raw.v["action"].v
        /\ raw.v["action"].v["type"] \notin RecognizedActionTypes
     THEN {[at |-> path, raw |-> raw.v["action"]]} ELSE {})
    \cup (IF "children" \in DOMAIN raw.v
          THEN UNION {UnrecognizedActions(raw.v["children"].v[i], Append(path, i)) :
                         i \in 1..Len(raw.v["children"].v)}
          ELSE {})

\* the document keeps every unrecognized action of its text, and the
\* collection pass lists it for its node
KeepsUnrecognized(doc) ==
    \A u \in UnrecognizedActions(doc.raw_content.val.v["layout"], <<>>) :
       LET a == NodeAt(doc.layout, u.at).action
       IN  /\ a.action_type = u.raw.v["type"]
           /\ \A f \in ActionKeys :
                 a[f] = IF f \in DOMAIN u.raw.v THEN u.raw.v[f] ELSE None
           /\ \E i \in 1..Len(collect_entries(doc.layout)) :
                 collect_entries(doc.layout)[i] = Entry(a, u.at)

AllKeepUnrecognized(ts) ==
    \A i \in 1..Len(ts) : ts[i].document # None => KeepsUnrecognized(ts[i].document)

\* the step executes an action of unrecognized type
PicksUnrecognized ==
    /\ PicksNumber
    /\ executed'.action # None
    /\ executed'.action.action_type \notin RecognizedActionTypes

C18_UnrecognizedActionKept ==
    [][/\ AllKeepUnrecognized(tabs)
       /\ AllKeepUnrecognized(tabs')
       /\ PicksUnrecognized =>
             /\ executed'.handled = "not implemented"
             /\ tabs' = tabs
             /\ active_tab_id' = active_tab_id
             /\ loaded' = None]_vars

\* the action of type "custom" was shown first, picked, and not handled
C18_Witness ==
    /\ executed # None
    /\ executed.choice = Num(1)
    /\ executed.action # None
    /\ executed.action.action_type = Str("custom")
    /\ executed.action.key = Str("k")
    /\ executed.action.value = Num(2)
    /\ executed.handled = "not implemented"
    /\ menu.list[1] = executed.action

(***************************************************************************)
(* C19: in the GUI a load runs fetch and parse on a load thread, and the   *)
(* load thread never renders or touches the tab frame: the frame is        *)
(* touched by the UI thread only, and the rendering of the loaded document *)
(* and the display of a load failure happen only after the load thread's   *)
(* load_document call has returned, whatever the interleaving.             *)
(***************************************************************************)
C19_RenderOnUiThreadAfterLoad ==
    /\ \A i \in 1..Len(gui.touched) :
          LET e == gui.touched[i]
          IN  /\ e.thread = "ui"
              /\ e.op \in {"render", "show_error", "status"} =>
                    e.pc \in {"loaded", "posted"}
    /\ \A w \in 1..Len(gui.workers) :
          gui.workers[w].pc \in {"loaded", "posted"} =>
             tabs[gui.workers[w].tab].document # None
    /\ \A i \in 1..Len(gui.frame.content) :
          gui.frame.content[i].kind = "document" =>
             \E w \in 1..Len(gui.workers) :
                /\ gui.workers[w].pc = "posted"
                /\ tabs[gui.workers[w].tab].url = gui.frame.content[i].what

\* two loads were in flight together; one was rendered, one failed, and the
\* second was shown before the first
C19_Witness ==
    /\ Len(gui.workers) = 2
    /\ \E i, j \in 1..Len(gui.touched) :
          /\ i < j
          /\ gui.touched[i].worker = 2
          /\ gui.touched[i].op = "render"
          /\ gui.touched[j].worker = 1
          /\ gui.touched[j].op = "show_error"

(***************************************************************************)
(* C21: the text rendering of a form prints an opening border, then each   *)
(* child in array order at an indent larger than the form's own, then a    *)
(* closing border.                                                         *)
(***************************************************************************)
C21_FormRendersBordered ==
    Rendered =>
        \A p \in PathsOf(Layout, <<>>) :
           LET node == NodeAt(Layout, p)
               n == Len(Kids(node))
               own == LinesOf(p)
               at == PositionsOf(p)
           IN  (Reach(Layout, p) /\ node.node_type = Str("form")) =>
                  /\ Len(own) = 2
                  /\ own[1].kind = "form_top"
                  /\ own[2].kind = "form_bottom"
                  /\ \A k \in at :
                        /\ surface.lines[k].kind = "form_top" /\ surface.lines[k].node = p
                              => \A j \in at : k <= j
                        /\ surface.lines[k].kind = "form_bottom" /\ surface.lines[k].node = p
                              => \A j \in at : j <= k
                  /\ \A i \in 1..n :
                        Prints(Append(p, i)) =>
                           /\ LinesOf(Append(p, i)) # <<>>
                           /\ \A k \in 1..Len(LinesOf(Append(p, i))) :
                                 LinesOf(Append(p, i))[k].indent > own[1].indent
                  /\ \A i \in 1..n : \A j \in (i + 1)..n :
                        \A a \in PositionsOf(Append(p, i)) :
                           \A b \in PositionsOf(Append(p, j)) : a < b

(***************************************************************************)
(* C22: a heading's level is never clamped or corrected: level 1 is boxed, *)
(* and a heading given any other level L, 0 and 99 included, is one line   *)
(* with a prefix of exactly L hash characters.                             *)
(***************************************************************************)
C22_HeadingLevelAsGiven ==
    (Rendered /\ Layout.node_type = Str("heading") /\ Layout.level # None) =>
        LET own == LinesOf(<<>>)
        IN  IF Layout.level = Num(1)
            THEN /\ Len(own) = 3
                 /\ own[2].kind = "heading_box"
            ELSE /\ Len(own) = 1
                 /\ own[1].kind = "heading"
                 /\ own[1].n = Layout.level.v

\* the node is one whose text is to be wrapped
Wraps(types) ==
    /\ Rendered
    /\ Layout.node_type \in {Str(ty) : ty \in types}
    /\ Layout.text # None /\ Layout.text.t = "str"

\* the line is a single word
OneWord(line) == Len(split(line.text)) = 1

(***************************************************************************)
(* C23: a paragraph node and a text node are both rendered with greedy     *)
(* word-wrap at 76 columns: every line printed for them is at most 76      *)
(* characters long, unless it is one single word longer than that.         *)
(***************************************************************************)
C23_ParagraphAndTextWrapped ==
    Wraps({"paragraph", "text"}) =>
        \A i \in DOMAIN LinesOf(<<>>) :
           LET line == LinesOf(<<>>)[i]
           IN  line.n <= 76 \/ OneWord(line)

\* the words of the lines, in the order of the lines
RECURSIVE WordsOf(_)
WordsOf(lines) ==
    IF lines = <<>> THEN <<>> ELSE split(Head(lines).text) \o WordsOf(Tail(lines))

(***************************************************************************)
(* C30: wrapping a paragraph splits the words of its text into consecutive *)
(* non-empty groups: the words of the printed lines, in order, are the     *)
(* words of the text in order, and no printed line is empty, also when the *)
(* first word or another word is longer than 76 characters.                *)
(***************************************************************************)
C30_WrapKeepsWordsNoEmptyLine ==
    Wraps({"paragraph"}) =>
        /\ WordsOf(LinesOf(<<>>)) = split(Layout.text.v)
        /\ \A i \in DOMAIN LinesOf(<<>>) : LinesOf(<<>>)[i].text # ""

\* the step is a load_document call that returned False on a tab that was
\* there before the call
FailedLoad ==
    /\ loaded' # None
    /\ ~loaded'.ok
    /\ loaded'.target \in 1..Len(tabs)

(***************************************************************************)
(* C26: a failed load is atomic for the tab's navigation state: when       *)
(* load_document returns False, the tab's url, title and history are as    *)
(* before the call and only its document is replaced, by the error         *)
(* document; also when recording the visit in the history file fails.      *)
(***************************************************************************)
C26_FailedLoadKeepsNavigationState ==
    [][FailedLoad =>
          LET before == tabs[loaded'.target]
              after_ == tabs'[loaded'.target]
          IN  /\ after_.url = before.url
              /\ after_.title = before.title
              /\ after_.history = before.history
              /\ after_.document.metadata.v.title = Str("Error Loading Page")]_vars

\* the document carries a navigate action to the url
RetryTargets(doc, url) ==
    \E i \in DOMAIN collect_actions(doc.layout) :
       LET a == collect_actions(doc.layout)[i]
       IN  a.action_type = Str("navigate") /\ a.destination = url

(***************************************************************************)
(* C29: the retry action of an error document targets the failed page: for *)
(* every url whose load fails, the error document installed in the tab     *)
(* carries a navigate action whose destination is that url.                *)
(***************************************************************************)
C29_RetryTargetsFailedUrl ==
    (loaded # None /\ ~loaded.ok) =>
        RetryTargets(tabs[loaded.target].document, loaded.url)

\* two loads were started in the tab, the second before the first was done,
\* and both have completed with a document: their callbacks have run
BothLoadsDone ==
    /\ Len(gui.workers) = 2
    /\ \A w \in 1..2 : gui.workers[w].pc = "posted" /\ gui.workers[w].ok
    /\ gui.events = <<>>
    /\ \E i \in 1..Len(gui.touched) :
          /\ gui.touched[i].op = "clear" /\ gui.touched[i].worker = 2
          /\ \A j \in 1..i : gui.touched[j].op = "clear"

(***************************************************************************)
(* C24: if two loads are started in one GUI tab before the first has       *)
(* completed, then once both have completed, in whichever order, the tab's *)
(* content widgets are those of exactly one document, the one of the most  *)
(* recently requested url.                                                 *)
(***************************************************************************)
C24_LatestRequestWins ==
    BothLoadsDone =>
        /\ Len(gui.frame.content) = 1
        /\ gui.frame.content[1].kind = "document"
        /\ gui.frame.content[1].what = Str(gui.workers[2].url)

\* the step renders the document of a completed load in the frame
RendersLoad ==
    /\ Len(gui'.touched) = Len(gui.touched) + 1
    /\ gui'.touched[Len(gui'.touched)].op = "render"

\* the runtime tab whose document the step renders
RenderedTab == tabs[Head(gui.events).tab]

(***************************************************************************)
(* C25: when a background load completes, the title of the loaded document *)
(* is applied to the GUI tab that requested the load (the first tab, whose *)
(* frame the loads are made in), also when another tab is selected by      *)
(* then; the title of no other tab changes.                                *)
(***************************************************************************)
C25_TitleGoesToRequestingTab ==
    [][RendersLoad =>
          /\ gui'.notebook.titles[1] = tab_title(RenderedTab.title.v)
          /\ \A i \in 2..Len(gui.notebook.titles) :
                gui'.notebook.titles[i] = gui.notebook.titles[i]]_vars

\* the step is a click on a link that has a destination and no action
ClicksPlainLink ==
    /\ Len(gui'.clicks) = Len(gui.clicks) + 1
    /\ LET node == gui'.clicks[Len(gui'.clicks)]
       IN  /\ node.node_type = Str("link")
           /\ Truthy(node.destination)
           /\ node.action = None

(***************************************************************************)
(* C28: the GUI and the CLI agree on what a link does: clicking in the GUI *)
(* a link that has a destination and no explicit action starts a load of   *)
(* that destination in the tab, as the navigate action does that           *)
(* collect_actions synthesizes for the node.                               *)
(***************************************************************************)
C28_GuiLinkNavigates ==
    [][ClicksPlainLink =>
          LET node == gui'.clicks[Len(gui'.clicks)]
          IN  /\ collect_actions(node) = <<Navigate(node.destination)>>
              /\ url_of(Navigate(node.destination), Str("q")) = node.destination
              /\ Len(gui'.workers) = Len(gui.workers) + 1
              /\ Str(gui'.workers[Len(gui'.workers)].url) = node.destination]_vars

\* no two entries of the history have the same url
NoDuplicateUrls ==
    \A i, j \in 1..Len(storage.history) :
       i # j => storage.entries[storage.history[i]].url
                # storage.entries[storage.history[j]].url

\* the step is the return of the add_to_history call t
Completes(t) ==
    /\ storage.threads[t].pc # "done"
    /\ storage'.threads[t].pc = "done"
    /\ ~storage'.threads[t].exc

(***************************************************************************)
(* C27: from a history without duplicate urls, after any add_to_history    *)
(* calls, those of concurrently running load workers included, the history *)
(* holds at most one entry per url, and right after a call returns the     *)
(* entry of its url is the last one, its visit_count one more than when    *)
(* the call began.                                                         *)
(***************************************************************************)
C27_HistoryOneEntryPerUrl ==
    [][/\ NoDuplicateUrls'
       /\ \A t \in 1..Len(storage.threads) :
             Completes(t) =>
                LET h == storage'.history
                    last == storage'.entries[h[Len(h)]]
                IN  /\ h # <<>>
                    /\ last.url = storage.threads[t].url
                    /\ last.visit_count = storage.threads[t].before + 1]_vars
====
